---- MODULE Spec2Model ----
(***************************************************************************)
(* Reddit-to-Discord bot: sync orchestration (RedditDiscordBot), the       *)
(* ledger of posted ids (RedditStorage) and webhook delivery with retry    *)
(* (DiscordService).                                                       *)
(*                                                                         *)
(* Spec      - the bot: start(), stop(), cron ticks, manual performSync    *)
(*             calls; every performSync invocation is a cycle that         *)
(*             advances from one await to the next.                        *)
(* SpecSend  - one DiscordService.sendRedditPost call, attempt by attempt. *)
(* SpecAuth  - RedditOAuth2Manager and the token file.                     *)
(* SpecStore - RedditStorage instances used as a library.                  *)
(* SpecConc  - addPostId calls in flight at once on one instance.          *)
(* SpecHealth- getHealthStatus over the bot's counters and the clock.      *)
(* SpecRate  - enforceRateLimit with several deliveries of one service.    *)
(* SpecLife  - start() and stop() calls that overlap.                      *)
(* SpecLive  - a running bot whose schedule fires without end.             *)
(***************************************************************************)
EXTENDS Integers, Sequences, FiniteSets, TLC

VARIABLES
    \* ---- RedditStorage ----
    data,            \* this.data: postedIds, metadata.totalProcessed, lastCheck
    isLoaded,        \* this.isLoaded
    file,            \* the persisted ledger file
    \* ---- RedditDiscordBot ----
    isRunning,       \* this.isRunning
    isShuttingDown,  \* this.isShuttingDown
    cronJob,         \* this.cronJob is armed
    totalSyncs,      \* this.totalSyncs
    totalErrors,     \* this.totalErrors
    lastSync,        \* this.lastSync (0 = undefined, k = the time of the k-th successful sync)
    lastError,       \* this.lastError ("none" = undefined)
    startPc,         \* position of the start() call in flight
    redditTest,      \* what redditService.testConnection() gave the start() in flight
    life,            \* the start() or stop() call that has just returned, with its Result
    stopPc,          \* position of the stop() call in flight
    cyc,             \* the performSync invocations in progress
    returned,        \* the performSync invocation that has just returned, with its Result
    calls,           \* number of start/stop/tick/performSync calls made so far
    writeFailures,   \* number of ledger file writes that failed so far
    delivered,       \* history: successful deliveries per item id
    \* ---- DiscordService.sendRedditPost (SpecSend) ----
    spc,             \* position inside sendRedditPost / sendWithRetry
    attempt,         \* loop variable of sendWithRetry
    sendLastError,   \* lastError of sendWithRetry
    posts,           \* history: outcome of every client.post call made
    waits,           \* history: for every backoff wait, the attempt it followed and its length
    sendResult,      \* the Result returned by sendRedditPost
    \* ---- RedditOAuth2Manager and its callers in RedditService (SpecAuth) ----
    tokenFile,       \* the token file (data/reddit-tokens.json)
    env,             \* process.env.REDDIT_REFRESH_TOKEN
    clock,           \* Date.now(), in ms
    apc,             \* position of the fetchNewPosts / testConnection call in flight
    tok,             \* the call in flight or last returned, with its history
    issued,          \* number of access tokens the upstream has issued
    exchangeCalls,   \* history: number of authorization_code requests made
    exchangeFailed,  \* history: an exchange of the code in env has failed
    lastExchange,    \* history: the last exchangeCodeForTokens call
    tokenCalls,      \* number of fetchNewPosts / testConnection calls made
    advances,        \* number of times the clock was advanced
    \* ---- the storage module used as a library (SpecStore) ----
    arrays,          \* the postedIds arrays in memory, by reference
    metas,           \* the metadata objects in memory (totalProcessed), by reference
    inst,            \* the RedditStorage instances: references held, lastCheck, isLoaded
    files,           \* the file of every instance
    lastOp,          \* history: the last call made on an instance
    libCalls,        \* number of calls made on instances
    \* ---- addPostId calls in flight at once on one loaded instance ----
    mem,             \* this.data of the instance
    disk,            \* the file of the instance
    call,            \* every call: where it stands, the JSON it writes, its result
    ioFailed,        \* history: an fs.writeFile has been rejected
    \* ---- RedditDiscordBot.getHealthStatus (SpecHealth) ----
    health,          \* the HealthStatus last returned, with the time of the call
    \* ---- DiscordService.enforceRateLimit with several deliveries (SpecRate) ----
    lastRequestTime, \* this.lastRequestTime
    sender,          \* every sendRedditPost call: where it stands, its timer, its attempt
    starts,          \* history: the call and the time of every client.post started
    \* ---- start() calls in flight at the same time (SpecLife) ----
    starting,        \* every start() call: the await it stands at
    armed            \* number of cron tasks started and not stopped

storageVars == <<data, isLoaded, file>>
botVars == <<isRunning, isShuttingDown, cronJob, totalSyncs, totalErrors,
             lastSync, lastError, startPc, redditTest, life, stopPc, cyc,
             returned, calls,
             writeFailures, delivered>>
sendVars == <<spc, attempt, sendLastError, posts, waits, sendResult>>
authVars == <<tokenFile, env, clock, apc, tok, issued, exchangeCalls,
              exchangeFailed, lastExchange, tokenCalls, advances>>
libVars == <<arrays, metas, inst, files, lastOp, libCalls>>
concVars == <<mem, disk, call, ioFailed>>
healthVars == <<health>>
rateVars == <<lastRequestTime, sender, starts>>
lifeVars == <<starting, armed>>
vars == <<storageVars, botVars, sendVars, authVars, libVars, concVars, healthVars, rateVars, lifeVars>>

----------------------------------------------------------------------------
(* Bounds *)

\* number of performSync invocations that can be in progress at once
MaxActive == 2
\* number of calls (start, stop, cron tick, manual performSync) in one behaviour
MaxCalls == 3
\* number of ledger file writes that fail in one behaviour
MaxWriteFailures == 1
\* length of the list one fetch returns
MaxFetch == 2

\* item identifiers the source can return
Ids == {"A", "B"}

Cycles == 1..MaxActive

RECURSIVE SeqToSet(_)
SeqToSet(s) == IF s = <<>> THEN {} ELSE {Head(s)} \cup SeqToSet(Tail(s))

\* Array.prototype.includes
Includes(s, x) == \E i \in 1..Len(s) : s[i] = x

NoDup(s) == \A i, j \in 1..Len(s) : i # j => s[i] # s[j]

\* lists a fetch can return: identifiers are unique within the source
FetchLists == {s \in UNION {[1..n -> Ids] : n \in 0..MaxFetch} : NoDup(s)}

----------------------------------------------------------------------------
(* RedditStorage *)

DEFAULT_STORAGE_DATA == [postedIds |-> <<>>, totalProcessed |-> 0, lastCheck |-> 0]

NoFile == [kind |-> "absent", data |-> DEFAULT_STORAGE_DATA]
\* a file that JSON.parse rejects
BadFile == [kind |-> "corrupt", data |-> DEFAULT_STORAGE_DATA]
\* a file that parses and fails validateStorageData
InvalidFile == [kind |-> "invalid", data |-> DEFAULT_STORAGE_DATA]
ValidFile(d) == [kind |-> "valid", data |-> d]

\* A storage state is [data, isLoaded, file]; every operation maps a storage
\* state and the outcome of its file write to the storage state it leaves,
\* with the result it returns in field ok (threw = it raised instead).
St(d, l, f) ==
    [data |-> d, isLoaded |-> l, file |-> f, ok |-> TRUE, threw |-> FALSE,
     \* error.code of a failure result
     code |-> "none",
     \* history: number of fs.writeFile calls made
     writes |-> 0]

\* save(): writes this.data as it is now; wr = the write succeeds
save(st, wr) ==
    IF wr THEN [st EXCEPT !.file = ValidFile(st.data), !.ok = TRUE,
                          !.code = "none", !.writes = @ + 1]
          ELSE [st EXCEPT !.ok = FALSE, !.code = "STORAGE_SAVE_ERROR",
                          !.writes = @ + 1]

\* variant: a file that fails validation is replaced by the default data
loadRepairs(st, wr) ==
    CASE st.file.kind = "absent" ->
            [save(st, wr) EXCEPT !.isLoaded = TRUE, !.ok = TRUE, !.code = "none"]
      [] st.file.kind = "corrupt" ->
            [st EXCEPT !.ok = FALSE, !.code = "STORAGE_LOAD_ERROR"]
      [] st.file.kind = "invalid" ->
            [save(st, wr) EXCEPT !.isLoaded = TRUE, !.ok = TRUE, !.code = "none"]
      [] OTHER ->
            [st EXCEPT !.data = st.file.data, !.isLoaded = TRUE, !.ok = TRUE]

\* load()
load(st, wr) ==
    CASE st.file.kind = "absent" ->
            \* the result of save() is not inspected
            [save(st, wr) EXCEPT !.isLoaded = TRUE, !.ok = TRUE, !.code = "none"]
      [] st.file.kind = "corrupt" ->
            [st EXCEPT !.ok = FALSE, !.code = "STORAGE_LOAD_ERROR"]
      [] st.file.kind = "invalid" ->
            [st EXCEPT !.ok = FALSE, !.code = "INVALID_STORAGE_FORMAT"]
      [] OTHER ->
            [st EXCEPT !.data = st.file.data, !.isLoaded = TRUE, !.ok = TRUE]

\* ensureLoaded(): throws when the lazy load fails; wl = the write made by a
\* lazy load succeeds
ensureLoaded(st, wl) ==
    IF st.isLoaded THEN st
    ELSE LET r == load(st, wl) IN [r EXCEPT !.threw = ~r.ok]

\* hasPostId() on a loaded storage
hasPostId(st, id) == Includes(st.data.postedIds, id)

RECURSIVE PushAll(_, _)
\* variant: the loop pushes every id of the argument
PushAll(ids, new) ==
    IF new = <<>> THEN ids ELSE PushAll(Append(ids, Head(new)), Tail(new))

RECURSIVE PushNew(_, _)
\* the loop of addPostIds: push every id not yet included
PushNew(ids, new) ==
    IF new = <<>> THEN ids
    ELSE PushNew(IF Includes(ids, Head(new)) THEN ids ELSE Append(ids, Head(new)),
                 Tail(new))

\* variant: the counter grows by the length of the argument
addPostIdsCountsArgument(st0, new, wl, wr) ==
    LET st == ensureLoaded(st0, wl) IN
    IF st.threw THEN st
    ELSE LET ids == PushNew(st.data.postedIds, new)
             addedCount == Len(ids) - Len(st.data.postedIds)
             st1 == [st EXCEPT !.data.postedIds = ids,
                               !.data.totalProcessed = @ + Len(new)]
         IN IF addedCount > 0 THEN save(st1, wr) ELSE [st1 EXCEPT !.ok = TRUE]

\* addPostIds()
addPostIds(st0, new, wl, wr) ==
    LET st == ensureLoaded(st0, wl) IN
    IF st.threw THEN st
    ELSE LET ids == PushNew(st.data.postedIds, new)
             addedCount == Len(ids) - Len(st.data.postedIds)
             st1 == [st EXCEPT !.data.postedIds = ids,
                               !.data.totalProcessed = @ + addedCount]
         IN IF addedCount > 0 THEN save(st1, wr) ELSE [st1 EXCEPT !.ok = TRUE]

\* variant: the id is pushed without the includes test
addPostIdUnconditional(st0, id, wl, wr) ==
    LET st == ensureLoaded(st0, wl) IN
    IF st.threw THEN st
    ELSE save([st EXCEPT !.data.postedIds = Append(@, id),
                         !.data.totalProcessed = @ + 1], wr)

\* addPostId()
addPostId(st0, id, wl, wr) ==
    LET st == ensureLoaded(st0, wl) IN
    IF st.threw THEN st
    ELSE IF Includes(st.data.postedIds, id) THEN [st EXCEPT !.ok = TRUE]
    ELSE save([st EXCEPT !.data.postedIds = Append(@, id),
                         !.data.totalProcessed = @ + 1], wr)

\* clear()
clear(st0, wl, wr) ==
    LET st == ensureLoaded(st0, wl) IN
    IF st.threw THEN st
    ELSE save([st EXCEPT !.data.postedIds = <<>>, !.data.totalProcessed = 0], wr)

\* Date.now() as stored in lastCheck: 0 stands for undefined, Stamped for any
\* time read after construction
Stamped == 1

\* updateLastCheck(); now stands for Date.now()
updateLastCheck(st0, now, wl, wr) ==
    LET st == ensureLoaded(st0, wl) IN
    IF st.threw THEN st
    ELSE save([st EXCEPT !.data.lastCheck = now], wr)

Storage == St(data, isLoaded, file)

SetStorage(st) ==
    /\ data' = st.data
    /\ isLoaded' = st.isLoaded
    /\ file' = st.file

\* the ledger as the next membership test would see it
LedgerData == IF isLoaded \/ file.kind # "valid" THEN data ELSE file.data

----------------------------------------------------------------------------
(* DiscordService: sendRedditPost and sendWithRetry *)

maxRetries == 3
baseRetryDelay == 1000
\* the cap of calculateRetryDelay
maxRetryDelay == 30000

\* what one client.post call can give: a response object, or a rejection with
\* an AxiosError that carries a response, an AxiosError without one (network
\* error, timeout), or an error that is no AxiosError.  status 0 = no response
Posts ==
    [kind : {"resolved"}, status : {200, 204, 404, 500}]
    \cup [kind : {"axios"}, status : {0, 404, 429, 500, 503}]
    \cup [kind : {"plain"}, status : {0}]

\* Math.random() * 1000
Jitters == {0, 500, 999}

NullError == [attempt |-> 0, kind |-> "null", status |-> 0]

\* the error caught in the loop body at the given attempt: the rejection, or
\* the Error("Unexpected response status") thrown for a response outside 2xx
caught(o, n) ==
    [attempt |-> n, kind |-> IF o.kind = "resolved" THEN "unexpected" ELSE o.kind,
     status |-> o.status]

\* response.status >= 200 && response.status < 300
isSuccess(o) == o.kind = "resolved" /\ o.status >= 200 /\ o.status < 300

\* variant: every status from 400 up ends the loop
isClientErrorNoUpperBound(o) == o.kind = "axios" /\ o.status # 0 /\ o.status >= 400

\* axios.isAxiosError(error) && error.response?.status, then 400 <= status < 500
isClientError(o) == o.kind = "axios" /\ o.status # 0 /\ o.status >= 400 /\ o.status < 500

\* variant: lastError keeps the first error caught
catchLastErrorKeepFirst(prev, o, n) == IF prev = NullError THEN caught(o, n) ELSE prev

\* lastError after the catch at attempt n
catchLastError(prev, o, n) == caught(o, n)

RECURSIVE Pow2(_)
Pow2(n) == IF n = 0 THEN 1 ELSE 2 * Pow2(n - 1)

Min(a, b) == IF a < b THEN a ELSE b

\* variant: the delay does not grow with the attempt
calculateRetryDelayFlat(n, jitter) ==
    Min(baseRetryDelay + jitter, maxRetryDelay)

\* calculateRetryDelay(attempt)
calculateRetryDelay(n, jitter) ==
    Min(baseRetryDelay * Pow2(n - 1) + jitter, maxRetryDelay)

\* the failure Result built after the loop
webhookFailed(err) ==
    [success |-> FALSE, code |-> "DISCORD_WEBHOOK_FAILED",
     message |-> "Failed to send Discord webhook after all retry attempts",
     originalError |-> err]

NoResult == [success |-> FALSE, code |-> "none", message |-> "none",
             originalError |-> NullError]

SendSuccess == [success |-> TRUE, code |-> "none", message |-> "none",
                originalError |-> NullError]

\* sendRedditPost(post) up to the first client.post of sendWithRetry.  (For a
\* post as convertToRedditPost builds it, formatting does not throw, and
\* sendWithRetry catches every error of client.post: the catch block of
\* sendRedditPost is not entered.)
SendRedditPost ==
    /\ spc = "off"
    /\ spc' = "posting"
    /\ attempt' = 1
    /\ UNCHANGED <<sendLastError, posts, waits, sendResult, storageVars, botVars, authVars, libVars, concVars, healthVars, rateVars, lifeVars>>

\* one iteration of the loop of sendWithRetry, up to its return or its wait
Post ==
    /\ spc = "posting"
    /\ \E o \in Posts, jitter \in Jitters :
          /\ posts' = Append(posts, o)
          /\ IF isSuccess(o)
             THEN /\ sendResult' = SendSuccess
                  /\ spc' = "done"
                  /\ UNCHANGED <<sendLastError, waits>>
             ELSE LET err == catchLastError(sendLastError, o, attempt) IN
                  /\ sendLastError' = err
                  /\ IF isClientError(o) \/ attempt >= maxRetries
                     THEN /\ sendResult' = webhookFailed(err)
                          /\ spc' = "done"
                          /\ UNCHANGED waits
                     ELSE /\ waits' = Append(waits,
                                 [after |-> attempt,
                                  delay |-> calculateRetryDelay(attempt, jitter)])
                          /\ spc' = "waiting"
                          /\ UNCHANGED sendResult
    /\ UNCHANGED <<attempt, storageVars, botVars, authVars, libVars, concVars, healthVars, rateVars, lifeVars>>

\* the backoff wait is over: next iteration
Retry ==
    /\ spc = "waiting"
    /\ attempt' = attempt + 1
    /\ spc' = "posting"
    /\ UNCHANGED <<sendLastError, posts, waits, sendResult, storageVars, botVars, authVars, libVars, concVars, healthVars, rateVars, lifeVars>>

----------------------------------------------------------------------------
(* The storage module used as a library: several RedditStorage instances    *)
(* in one process, each backed by a file of its own                         *)

\* number of RedditStorage instances created in one behaviour
MaxInstances == 2
\* number of calls made on the instances in one behaviour
MaxLibCalls == 4

Instances == 1..MaxInstances

\* References to objects in memory.  Reference 0 is the array (the metadata
\* object) of DEFAULT_STORAGE_DATA: the constructor copies the top level of
\* DEFAULT_STORAGE_DATA only, so a new instance holds these very objects.
\* Reference i is the object instance i got from JSON.parse or from "= []".
DefaultRef == 0
Refs == {DefaultRef} \cup Instances

\* an instance that has not been constructed
NoInstance == [made |-> FALSE, idsRef |-> DefaultRef, metaRef |-> DefaultRef,
               lastCheck |-> 0, isLoaded |-> FALSE,
               \* history: every call made on the instance returned success
               clean |-> TRUE]

\* constructor: this.data = { ...DEFAULT_STORAGE_DATA }
NewInstance == [NoInstance EXCEPT !.made = TRUE]

\* this.data of instance i, by value
DataOf(i) ==
    [postedIds |-> arrays[inst[i].idsRef],
     totalProcessed |-> metas[inst[i].metaRef],
     lastCheck |-> inst[i].lastCheck]

\* instance i as a storage state
StorageOf(i) == St(DataOf(i), inst[i].isLoaded, files[i])

\* the call reads the file into this.data: load() itself, or the lazy load
\* of an instance that is not loaded, finding a file that passes validation
ReadsFile(st0, explicit) == (explicit \/ ~st0.isLoaded) /\ st0.file.kind = "valid"

\* the ledger of an instance before a call, as its user knows it: the list in
\* memory once loaded, the list in the file before that
LedgerOf(st0) ==
    IF st0.isLoaded THEN st0.data
    ELSE IF st0.file.kind = "valid" THEN st0.file.data
    ELSE DEFAULT_STORAGE_DATA

\* Instance i goes from storage state st0 to st.  Objects are mutated in
\* place, except that reading the file replaces this.data by new objects
\* (fresh) and clear() assigns a new array (newArray).
Becomes(i, st0, st, fresh, newArray) ==
    LET ir == IF fresh \/ newArray THEN i ELSE inst[i].idsRef
        mr == IF fresh THEN i ELSE inst[i].metaRef
    IN /\ arrays' = [arrays EXCEPT ![ir] = st.data.postedIds]
       /\ metas' = [metas EXCEPT ![mr] = st.data.totalProcessed]
       /\ inst' = [inst EXCEPT ![i] = [made |-> TRUE, idsRef |-> ir, metaRef |-> mr,
                                       lastCheck |-> st.data.lastCheck,
                                       isLoaded |-> st.isLoaded,
                                       clean |-> inst[i].clean /\ st.ok /\ ~st.threw]]
       /\ files' = [files EXCEPT ![i] = st.file]

\* what load() returns on a new RedditStorage for the file of instance i
Reload(i) ==
    load(St([postedIds |-> arrays[DefaultRef], totalProcessed |-> metas[DefaultRef],
             lastCheck |-> 0], FALSE, files[i]), TRUE).data

\* the record of a call: ld is the storage state once the call's
\* ensureLoaded() has returned (st0 itself for load())
OpRecord(op, i, arg, st0, ld, st) ==
    [op |-> op, inst |-> i, arg |-> arg,
     before |-> LedgerOf(st0), wasLoaded |-> st0.isLoaded,
     fileBefore |-> st0.file,
     loaded |-> ld.data, loadWrites |-> ld.writes,
     after |-> st.data, isLoaded |-> st.isLoaded,
     ok |-> st.ok, threw |-> st.threw, code |-> st.code, writes |-> st.writes]

NoOp == [op |-> "none", inst |-> 0, arg |-> <<>>,
         before |-> DEFAULT_STORAGE_DATA, wasLoaded |-> FALSE,
         fileBefore |-> NoFile,
         loaded |-> DEFAULT_STORAGE_DATA, loadWrites |-> 0,
         after |-> DEFAULT_STORAGE_DATA, isLoaded |-> FALSE,
         ok |-> TRUE, threw |-> FALSE, code |-> "none", writes |-> 0]

LibCall(i) ==
    /\ inst[i].made
    /\ libCalls < MaxLibCalls
    /\ libCalls' = libCalls + 1

\* new RedditStorage(filePath), the instances being created in order
Construct(i) ==
    /\ ~inst[i].made
    /\ \A j \in 1..(i - 1) : inst[j].made
    /\ inst' = [inst EXCEPT ![i] = NewInstance]
    /\ lastOp' = NoOp
    /\ UNCHANGED <<arrays, metas, files, libCalls, storageVars, botVars,
                   sendVars, authVars, concVars, healthVars, rateVars, lifeVars>>

\* storage.load()
CallLoad(i) ==
    /\ LibCall(i)
    /\ \E wr \in BOOLEAN :
          LET st0 == StorageOf(i)
              st == load(st0, wr)
          IN /\ Becomes(i, st0, st, ReadsFile(st0, TRUE), FALSE)
             /\ lastOp' = OpRecord("load", i, <<>>, st0, st0, st)
    /\ UNCHANGED <<storageVars, botVars, sendVars, authVars, concVars, healthVars, rateVars, lifeVars>>

\* storage.addPostId(id)
CallAddPostId(i) ==
    /\ LibCall(i)
    /\ \E id \in Ids, wl, wr \in BOOLEAN :
          LET st0 == StorageOf(i)
              st == addPostId(st0, id, wl, wr)
          IN /\ Becomes(i, st0, st, ReadsFile(st0, FALSE), FALSE)
             /\ lastOp' = OpRecord("addPostId", i, <<id>>, st0, ensureLoaded(st0, wl), st)
    /\ UNCHANGED <<storageVars, botVars, sendVars, authVars, concVars, healthVars, rateVars, lifeVars>>

\* argument lists of addPostIds: repeats allowed
IdLists == UNION {[1..n -> Ids] : n \in 0..MaxFetch}

\* storage.addPostIds(ids)
CallAddPostIds(i) ==
    /\ LibCall(i)
    /\ \E ids \in IdLists, wl, wr \in BOOLEAN :
          LET st0 == StorageOf(i)
              st == addPostIds(st0, ids, wl, wr)
          IN /\ Becomes(i, st0, st, ReadsFile(st0, FALSE), FALSE)
             /\ lastOp' = OpRecord("addPostIds", i, ids, st0, ensureLoaded(st0, wl), st)
    /\ UNCHANGED <<storageVars, botVars, sendVars, authVars, concVars, healthVars, rateVars, lifeVars>>

\* storage.clear()
CallClear(i) ==
    /\ LibCall(i)
    /\ \E wl, wr \in BOOLEAN :
          LET st0 == StorageOf(i)
              st == clear(st0, wl, wr)
          IN /\ Becomes(i, st0, st, ReadsFile(st0, FALSE), ~st.threw)
             /\ lastOp' = OpRecord("clear", i, <<>>, st0, ensureLoaded(st0, wl), st)
    /\ UNCHANGED <<storageVars, botVars, sendVars, authVars, concVars, healthVars, rateVars, lifeVars>>

\* storage.hasPostId(id): ensureLoaded(), then the membership test
CallHasPostId(i) ==
    /\ LibCall(i)
    /\ \E id \in Ids, wl \in BOOLEAN :
          LET st0 == StorageOf(i)
              st == ensureLoaded(st0, wl)
          IN /\ Becomes(i, st0, [st EXCEPT !.ok = ~st.threw],
                        ReadsFile(st0, FALSE), FALSE)
             /\ lastOp' = OpRecord("hasPostId", i, <<id>>, st0, st,
                                   [st EXCEPT !.ok = ~st.threw])
    /\ UNCHANGED <<storageVars, botVars, sendVars, authVars, concVars, healthVars, rateVars, lifeVars>>

\* storage.updateLastCheck()
CallUpdateLastCheck(i) ==
    /\ LibCall(i)
    /\ \E wl, wr \in BOOLEAN :
          LET st0 == StorageOf(i)
              st == updateLastCheck(st0, Stamped, wl, wr)
          IN /\ Becomes(i, st0, st, ReadsFile(st0, FALSE), FALSE)
             /\ lastOp' = OpRecord("updateLastCheck", i, <<>>, st0,
                                   ensureLoaded(st0, wl), st)
    /\ UNCHANGED <<storageVars, botVars, sendVars, authVars, concVars, healthVars, rateVars, lifeVars>>

\* ledger files the process can find when it starts
InitFiles ==
    {NoFile, BadFile,
     ValidFile([postedIds |-> <<"A">>, totalProcessed |-> 1, lastCheck |-> 0])}

\* no instance has been constructed
LibQuiet ==
    /\ arrays = [r \in Refs |-> <<>>]
    /\ metas = [r \in Refs |-> 0]
    /\ inst = [i \in Instances |-> NoInstance]
    /\ lastOp = NoOp
    /\ libCalls = 0

LibIdle ==
    /\ LibQuiet
    /\ files = [i \in Instances |-> NoFile]

\* files an instance can find when it is first used
LibFiles == InitFiles \cup {InvalidFile}

\* the files the instances will find
LibInit ==
    /\ LibQuiet
    /\ files \in [Instances -> LibFiles]

----------------------------------------------------------------------------
(* addPostId calls in flight at the same time on one loaded instance        *)

\* number of addPostId calls issued without awaiting one another
MaxConcurrent == 3

Callers == 1..MaxConcurrent

\* call k adds the identifier "post-k", written k
IdOf(k) == k

\* a file left by two fs.writeFile calls on the same path that overlapped
\* with different contents
TornFile == [kind |-> "torn", data |-> DEFAULT_STORAGE_DATA]

NoCall == [pc |-> "idle", json |-> DEFAULT_STORAGE_DATA, ok |-> FALSE]

\* storage.addPostId("post-k") is called: it runs up to
\* "await this.ensureLoaded()", which returns at once on a loaded instance
Issue(k) ==
    /\ call[k].pc = "idle"
    /\ call' = [call EXCEPT ![k].pc = "ensureLoaded"]
    /\ UNCHANGED <<mem, disk, ioFailed, storageVars, botVars, sendVars, authVars,
                   libVars, healthVars, rateVars, lifeVars>>

\* the call resumes: includes test, push, counter, and save() up to
\* "await this.ensureDirectoryExists()"
Push(k) ==
    /\ call[k].pc = "ensureLoaded"
    /\ IF Includes(mem.postedIds, IdOf(k))
       THEN /\ call' = [call EXCEPT ![k].pc = "returned", ![k].ok = TRUE]
            /\ mem' = mem
       ELSE /\ mem' = [mem EXCEPT !.postedIds = Append(@, IdOf(k)),
                                  !.totalProcessed = @ + 1]
            /\ call' = [call EXCEPT ![k].pc = "access"]
    /\ UNCHANGED <<disk, ioFailed, storageVars, botVars, sendVars, authVars, libVars, healthVars, rateVars, lifeVars>>

\* continuations of an await on a settled promise run before the callback of
\* any file operation
MicrotasksDone == \A j \in Callers : call[j].pc # "ensureLoaded"

\* save() resumes: JSON.stringify(this.data) as it is now, then
\* "await fs.writeFile(...)"
Stringify(k) ==
    /\ call[k].pc = "access"
    /\ MicrotasksDone
    /\ call' = [call EXCEPT ![k].pc = "writeFile", ![k].json = mem]
    /\ UNCHANGED <<mem, disk, ioFailed, storageVars, botVars, sendVars, authVars,
                   libVars, healthVars, rateVars, lifeVars>>

\* another call's fs.writeFile on the same path, with other contents, is in
\* progress
Overlaps(k) ==
    \E j \in Callers \ {k} : call[j].pc = "writeFile" /\ call[j].json # call[k].json

\* what an fs.writeFile can do: write its contents, be rejected, or, when it
\* overlaps another one, leave a mixture of the two contents
LandOutcomes(k) == {"ok", "fail"} \cup (IF Overlaps(k) THEN {"torn"} ELSE {})

\* fs.writeFile of call k settles and the call returns the result of save()
WriteLands(k) ==
    /\ call[k].pc = "writeFile"
    /\ MicrotasksDone
    /\ \E w \in LandOutcomes(k) :
          /\ disk' = CASE w = "ok" -> ValidFile(call[k].json)
                        [] w = "torn" -> TornFile
                        [] OTHER -> disk
          /\ ioFailed' = (ioFailed \/ w = "fail")
          /\ call' = [call EXCEPT ![k].pc = "returned", ![k].ok = (w # "fail")]
    /\ UNCHANGED <<mem, storageVars, botVars, sendVars, authVars, libVars, healthVars, rateVars, lifeVars>>

\* a loaded instance of an empty ledger, its file written by load()
ConcIdle ==
    /\ mem = DEFAULT_STORAGE_DATA
    /\ disk = ValidFile(DEFAULT_STORAGE_DATA)
    /\ call = [k \in Callers |-> NoCall]
    /\ ioFailed = FALSE

----------------------------------------------------------------------------
(* RedditOAuth2Manager, and the two callers of getValidAccessToken in       *)
(* RedditService                                                            *)

\* number of fetchNewPosts / testConnection calls in one behaviour
MaxTokenCalls == 3
\* number of times the clock advances in one behaviour
MaxAdvances == 2

\* 5 * 60 * 1000: the buffer of getValidAccessToken, in ms
expiryBuffer == 5 * 60 * 1000

\* Date.now() when the process starts
StartTime == 10000000

\* amounts by which the clock advances between two steps, in ms
Advances == {60000, 3600000}

\* expires_in of a token response, in seconds
ExpiresIn == {300, 3600}

\* access tokens are numbered in the order the upstream issues them; the empty
\* string of the environment fallback is number 0
EmptyToken == 0

NoTokenData == [refreshToken |-> "none", accessToken |-> EmptyToken, expiresAt |-> 0]

\* the token file: absent, not parseable as JSON, the JSON value null, or a
\* StoredTokenData record
NoTokenFile == [kind |-> "absent", data |-> NoTokenData]
UnreadableTokenFile == [kind |-> "unreadable", data |-> NoTokenData]
NullTokenFile == [kind |-> "null", data |-> NoTokenData]
TokenFileOf(rec) == [kind |-> "valid", data |-> rec]

\* process.env.REDDIT_REFRESH_TOKEN: unset (or empty), or a string of some
\* length with or without an underscore in it
EnvValues ==
    {[set |-> FALSE, length |-> 0, underscore |-> FALSE]}
    \cup [set : {TRUE}, length : {30, 50, 51}, underscore : BOOLEAN]

\* envRefreshToken.length > 50 && envRefreshToken.includes("_")
looksLikeAuthCode(e) == e.length > 50 /\ e.underscore

\* what the upstream can answer to a refresh_token request and to an
\* authorization_code request ("noRefresh": a 2xx response without
\* refresh_token; "client": rejection with a 4xx status; "server": with a 5xx
\* status; "network": no response)
RefreshAnswers == {"ok", "client", "server", "network"}
ExchangeAnswers == {"ok", "noRefresh", "client", "network"}

\* what fs.writeFile of saveTokenData can do: write the file, fail before the
\* file is opened, or fail after the open has truncated it
TokenWrites == {"ok", "fail", "torn"}

\* saveTokenData(tokenData) on token file f; it throws unless w = "ok"
saveTokenData(f, rec, w) ==
    CASE w = "ok" -> TokenFileOf(rec)
      [] w = "fail" -> f
      [] OTHER -> UnreadableTokenFile

TokenSuccess(token) == [success |-> TRUE, code |-> "none", token |-> token]
TokenFailure(code) == [success |-> FALSE, code |-> code, token |-> EmptyToken]

\* refreshAccessToken(refreshToken): the result it returns and the token file
\* it leaves, for upstream answer up with expires_in = expiresIn and access
\* token newToken, and write outcome w
refreshAccessToken(refreshToken, f, t, up, expiresIn, newToken, w) ==
    IF up = "ok"
    THEN LET rec == [refreshToken |-> refreshToken, accessToken |-> newToken,
                     expiresAt |-> t + expiresIn * 1000]
         IN [result |-> IF w = "ok" THEN TokenSuccess(newToken)
                                    ELSE TokenFailure("OAUTH_REFRESH_ERROR"),
             file |-> saveTokenData(f, rec, w)]
    ELSE [result |-> TokenFailure("OAUTH_REFRESH_ERROR"), file |-> f]

\* variant: a response without refresh_token is accepted and stored
exchangeCodeForTokensUnchecked(f, t, up, expiresIn, newToken, w) ==
    IF up \in {"ok", "noRefresh"}
    THEN LET rec == [refreshToken |-> IF up = "ok" THEN "exchanged" ELSE "undefined",
                     accessToken |-> newToken,
                     expiresAt |-> t + expiresIn * 1000]
         IN [success |-> w = "ok",
             code |-> IF w = "ok" THEN "none" ELSE "OAUTH_CODE_EXCHANGE_ERROR",
             data |-> IF w = "ok" THEN rec ELSE NoTokenData,
             file |-> saveTokenData(f, rec, w)]
    ELSE [success |-> FALSE, code |-> "OAUTH_CODE_EXCHANGE_ERROR",
          data |-> NoTokenData, file |-> f]

\* exchangeCodeForTokens(authCode): its result (with the record as data), and
\* the token file it leaves; only the answer "ok" carries a refresh_token
exchangeCodeForTokens(f, t, up, expiresIn, newToken, w) ==
    IF up = "ok"
    THEN LET rec == [refreshToken |-> "exchanged", accessToken |-> newToken,
                     expiresAt |-> t + expiresIn * 1000]
         IN [success |-> w = "ok",
             code |-> IF w = "ok" THEN "none" ELSE "OAUTH_CODE_EXCHANGE_ERROR",
             data |-> IF w = "ok" THEN rec ELSE NoTokenData,
             file |-> saveTokenData(f, rec, w)]
    ELSE [success |-> FALSE, code |-> "OAUTH_CODE_EXCHANGE_ERROR",
          data |-> NoTokenData, file |-> f]

\* the record loadTokenData builds from a refresh token in the environment
EnvTokenData == [refreshToken |-> "env", accessToken |-> EmptyToken, expiresAt |-> 0]

\* variant: a token is reused up to and including the edge of the buffer
isFreshAtEdge(expiresAt, t) == expiresAt >= t + expiryBuffer

\* tokenData.data.expiresAt > now + expiryBuffer
isFresh(expiresAt, t) == expiresAt > t + expiryBuffer

\* variant: fetchNewPosts relabels the token error
tokenFailureRelabelled(caller, result) ==
    [success |-> FALSE,
     code |-> IF caller = "fetch" THEN "REDDIT_FETCH_ERROR" ELSE "REDDIT_CONNECTION_ERROR"]

\* what fetchNewPosts / testConnection return when getValidAccessToken failed
tokenFailure(caller, result) == [success |-> FALSE, code |-> result.code]

\* what they return after the API request, which succeeded (ok) or threw
apiResult(caller, ok) ==
    IF ok THEN [success |-> TRUE, code |-> "none"]
    ELSE [success |-> FALSE,
          code |-> IF caller = "fetch" THEN "REDDIT_FETCH_ERROR"
                                       ELSE "REDDIT_CONNECTION_ERROR"]

NoCallerResult == [success |-> FALSE, code |-> "pending"]

NoExchange == [answer |-> "none", code |-> "none", fileBefore |-> NoTokenFile,
               fileAfter |-> NoTokenFile]

\* a call that has not started
NoTokenCall ==
    [caller |-> "none", source |-> "none", loaded |-> NoTokenData,
     checkedAt |-> 0, refreshCalls |-> 0, refreshAnswer |-> "none",
     refreshWrite |-> "none", usedRefresh |-> "none", newExpiry |-> 0,
     fileBefore |-> NoTokenFile,
     exchanged |-> "none", returned |-> FALSE, result |-> TokenFailure("none"),
     callerResult |-> NoCallerResult]

\* getValidAccessToken returns r to its caller: on a failure the caller
\* returns at once, on a success it goes on to the API request
TokenReturns(tk, r) ==
    /\ tok' = [tk EXCEPT !.returned = TRUE, !.result = r,
                         !.callerResult = IF r.success THEN NoCallerResult
                                          ELSE tokenFailure(tk.caller, r)]
    /\ apc' = IF r.success THEN "api" ELSE "idle"

\* getValidAccessToken once loadTokenData has returned rec: reuse or refresh
AfterLoad(tk, rec, source) ==
    LET tk1 == [tk EXCEPT !.source = source, !.loaded = rec, !.checkedAt = clock]
    IN IF isFresh(rec.expiresAt, clock)
       THEN TokenReturns(tk1, TokenSuccess(rec.accessToken))
       ELSE /\ tok' = [tk1 EXCEPT !.usedRefresh = rec.refreshToken]
            /\ apc' = "refreshing"

\* fetchNewPosts() or testConnection() is called: getValidAccessToken and
\* loadTokenData up to the first request to the upstream, or to the return
GetToken ==
    /\ apc = "idle"
    /\ tokenCalls < MaxTokenCalls
    /\ tokenCalls' = tokenCalls + 1
    /\ \E caller \in {"fetch", "test"} :
          LET tk == [NoTokenCall EXCEPT !.caller = caller, !.fileBefore = tokenFile]
          IN CASE tokenFile.kind = "valid" ->
                    AfterLoad(tk, tokenFile.data, "file")
               [] tokenFile.kind = "null" ->
                    \* tokenData.data is null: reading expiresAt throws
                    TokenReturns(tk, TokenFailure("OAUTH_TOKEN_ERROR"))
               [] OTHER ->
                    IF ~env.set
                    THEN TokenReturns(tk, TokenFailure("OAUTH_NO_TOKENS"))
                    ELSE IF looksLikeAuthCode(env)
                    THEN tok' = tk /\ apc' = "exchanging"
                    ELSE AfterLoad(tk, EnvTokenData, "env")
    /\ UNCHANGED <<tokenFile, env, clock, issued, exchangeCalls, exchangeFailed,
                   lastExchange, advances, storageVars, botVars, sendVars, libVars, concVars, healthVars, rateVars, lifeVars>>

\* the upstream answers the authorization_code request of loadTokenData
ExchangeResponds ==
    /\ apc = "exchanging"
    /\ \E up \in ExchangeAnswers, expiresIn \in ExpiresIn, w \in TokenWrites :
          LET x == exchangeCodeForTokens(tokenFile, clock, up, expiresIn,
                                         issued + 1, w)
              tk == [tok EXCEPT !.exchanged = up]
          IN /\ exchangeCalls' = exchangeCalls + 1
             /\ issued' = IF up \in {"ok", "noRefresh"} THEN issued + 1 ELSE issued
             /\ tokenFile' = x.file
             /\ lastExchange' = [answer |-> up, code |-> x.code,
                                 fileBefore |-> tokenFile, fileAfter |-> x.file]
             /\ exchangeFailed' = (exchangeFailed \/ ~x.success)
             /\ IF x.success
                THEN AfterLoad(tk, x.data, "exchange")
                ELSE \* loadTokenData returns OAUTH_CODE_EXPIRED, and
                     \* getValidAccessToken answers any failure of
                     \* loadTokenData with OAUTH_NO_TOKENS
                     TokenReturns(tk, TokenFailure("OAUTH_NO_TOKENS"))
    /\ UNCHANGED <<env, clock, tokenCalls, advances, storageVars, botVars, sendVars, libVars, concVars, healthVars, rateVars, lifeVars>>

\* the upstream answers the refresh_token request
RefreshResponds ==
    /\ apc = "refreshing"
    /\ \E up \in RefreshAnswers, expiresIn \in ExpiresIn, w \in TokenWrites :
          LET r == refreshAccessToken(tok.usedRefresh, tokenFile, clock, up,
                                      expiresIn, issued + 1, w)
          IN /\ issued' = IF up = "ok" THEN issued + 1 ELSE issued
             /\ tokenFile' = r.file
             /\ TokenReturns([tok EXCEPT !.refreshCalls = @ + 1,
                                         !.refreshAnswer = up,
                                         !.refreshWrite = IF up = "ok" THEN w ELSE "none",
                                         !.newExpiry = IF up = "ok"
                                                       THEN clock + expiresIn * 1000
                                                       ELSE 0,
                                         !.fileBefore = tokenFile],
                             r.result)
    /\ UNCHANGED <<env, clock, exchangeCalls, exchangeFailed, lastExchange,
                   tokenCalls, advances, storageVars, botVars, sendVars, libVars, concVars, healthVars, rateVars, lifeVars>>

\* the API request of fetchNewPosts / testConnection returns or throws
ApiResponds ==
    /\ apc = "api"
    /\ \E ok \in BOOLEAN :
          tok' = [tok EXCEPT !.callerResult = apiResult(tok.caller, ok)]
    /\ apc' = "idle"
    /\ UNCHANGED <<tokenFile, env, clock, issued, exchangeCalls, exchangeFailed,
                   lastExchange, tokenCalls, advances, storageVars, botVars,
                   sendVars, libVars, concVars, healthVars, rateVars, lifeVars>>

\* time passes
Advance ==
    /\ advances < MaxAdvances
    /\ advances' = advances + 1
    /\ \E d \in Advances : clock' = clock + d
    /\ UNCHANGED <<tokenFile, env, apc, tok, issued, exchangeCalls,
                   exchangeFailed, lastExchange, tokenCalls, storageVars,
                   botVars, sendVars, libVars, concVars, healthVars, rateVars, lifeVars>>

\* token files the process can find when it starts: none, a damaged one, and
\* records whose access token expires before, at and after the buffer's edge
InitTokenFiles ==
    {NoTokenFile, UnreadableTokenFile, NullTokenFile}
    \cup {TokenFileOf([refreshToken |-> "stored", accessToken |-> 1,
                       expiresAt |-> StartTime + d]) :
            d \in {0, 240000, 300000, 300001, 3600000}}

\* no RedditService call is in flight
AuthQuiet ==
    /\ clock = StartTime
    /\ apc = "idle"
    /\ tok = NoTokenCall
    /\ exchangeCalls = 0
    /\ exchangeFailed = FALSE
    /\ lastExchange = NoExchange
    /\ tokenCalls = 0
    /\ advances = 0

AuthIdle ==
    /\ AuthQuiet
    /\ tokenFile = NoTokenFile
    /\ env = [set |-> FALSE, length |-> 0, underscore |-> FALSE]
    /\ issued = 0

AuthInit ==
    /\ AuthQuiet
    /\ tokenFile \in InitTokenFiles
    /\ env \in EnvValues
    /\ issued = IF tokenFile.kind = "valid" THEN 1 ELSE 0

----------------------------------------------------------------------------
(* RedditDiscordBot *)

AuthCodes == {"OAUTH_NO_TOKENS", "OAUTH_REFRESH_ERROR", "OAUTH_TOKEN_ERROR"}

\* the error codes a failure result of fetchNewPosts() can carry
FetchErrorCodes == AuthCodes \cup {"REDDIT_FETCH_ERROR"}

\* variant: OAUTH_TOKEN_ERROR is not among the codes tested
isAuthErrorTwoCodes(code) == code \in {"OAUTH_NO_TOKENS", "OAUTH_REFRESH_ERROR"}

\* the test of fetchResult.error.code in performSync
isAuthError(code) == code \in AuthCodes

\* what awaiting discordService.sendRedditPost(post) can give performSync
SendOutcomes == {"ok", "fail", "throw"}

\* outcomes of a ledger file write: it can fail while failures are left
WriteOutcomes == IF writeFailures < MaxWriteFailures THEN {TRUE, FALSE} ELSE {TRUE}

\* the write outcomes wl, wr count as failures when the operation that left
\* storage state st made the write
CountWrites(before, after, wl, wr) ==
    writeFailures' = IF (~wl \/ ~wr) /\ after.file = before.file /\ after # before
                        /\ writeFailures < MaxWriteFailures
                     THEN writeFailures + 1 ELSE writeFailures

\* a performSync invocation that is not in progress
IdleCycle ==
    [pc |-> "idle", origin |-> "none", result |-> "none", fetchOk |-> FALSE,
     fetchError |-> "none",
     fetched |-> <<>>, newPosts |-> <<>>, idx |-> 1, postIds |-> <<>>,
     postsFound |-> 0, postsSent |-> 0, postsFailed |-> 0, postsFiltered |-> 0,
     \* history
     startIds |-> {}, startProcessed |-> 0, handed |-> <<>>,
     endIds |-> {}, endProcessed |-> 0, persistFailed |-> FALSE]

Active(c) == cyc[c].pc # "idle"

\* no start() or stop() call has just returned
NoLife ==
    [op |-> "none", ok |-> TRUE, early |-> FALSE, loadOk |-> TRUE,
     sinkOk |-> TRUE, sourceOk |-> TRUE, scheduleOk |-> TRUE, synced |-> FALSE]

\* no performSync, start() or stop() returns in this step
Forget == returned' = IdleCycle /\ life' = NoLife

\* start() or stop() returns rec
LifeReturn(rec) == returned' = IdleCycle /\ life' = rec

\* performSync returns: the invocation leaves its slot and its caller gets rec
Return(c, rec) ==
    /\ cyc' = [cyc EXCEPT ![c] = IdleCycle]
    /\ returned' = [rec EXCEPT !.pc = "done"]
    /\ life' = NoLife

\* variant: performSync does not look at the shutdown flag
skipsSyncNever(shuttingDown) == FALSE

\* the test "if (this.isShuttingDown)" at the top of performSync
skipsSync(shuttingDown) == shuttingDown

\* performSync() up to its first await, in the first free slot
Begin(origin) ==
    /\ \E c \in Cycles : ~Active(c)
    /\ LET c == CHOOSE c \in Cycles : ~Active(c) /\ \A d \in 1..(c - 1) : Active(d)
       IN IF skipsSync(isShuttingDown)
          THEN Return(c, [IdleCycle EXCEPT !.origin = origin, !.result = "success"])
          ELSE /\ cyc' = [cyc EXCEPT ![c] =
                             [IdleCycle EXCEPT
                                 !.pc = "fetching", !.origin = origin,
                                 !.startIds = SeqToSet(LedgerData.postedIds),
                                 !.startProcessed = LedgerData.totalProcessed]]
               /\ Forget

\* variant: the catch block does not count the error
SyncCatchUncounted(c, cy, msg) ==
    /\ totalErrors' = totalErrors
    /\ lastError' = msg
    /\ Return(c, [cy EXCEPT !.result = "failure"])

\* variant: the catch block counts the error and throws it on to the caller
SyncCatchRethrows(c, cy, msg) ==
    /\ totalErrors' = totalErrors + 1
    /\ lastError' = msg
    /\ Return(c, [cy EXCEPT !.result = "threw"])

\* the catch block of performSync; the one failure result it builds has code
\* SYNC_ERROR
SyncCatch(c, cy, msg) ==
    /\ totalErrors' = totalErrors + 1
    /\ lastError' = msg
    /\ Return(c, [cy EXCEPT !.result = "failure"])

\* variant: the early returns count the sync but leave lastCheck alone
NothingToSendUnstamped(c, st, allPosts, filtered, wl, wr) ==
    LET st1 == st
        cy == [cyc[c] EXCEPT !.fetched = allPosts,
                             !.postsFound = Len(allPosts),
                             !.postsFiltered = filtered]
    IN /\ totalSyncs' = totalSyncs + 1
       /\ lastSync' = totalSyncs + 1
       /\ SetStorage(st1)
       /\ IF st1.threw
          THEN /\ totalErrors' = totalErrors + 1
               /\ lastError' = "storage"
               /\ Return(c, [cy EXCEPT !.result = "failure"])
          ELSE /\ UNCHANGED <<totalErrors, lastError>>
               /\ Return(c, [cy EXCEPT !.result = "success", !.fetchOk = TRUE,
                                       !.endIds = SeqToSet(st1.data.postedIds),
                                       !.endProcessed = st1.data.totalProcessed])

\* the two early returns "no new posts" of performSync, on storage state st
NothingToSend(c, st, allPosts, filtered, wl, wr) ==
    LET st1 == updateLastCheck(st, Stamped, wl, wr)
        cy == [cyc[c] EXCEPT !.fetched = allPosts,
                             !.postsFound = Len(allPosts),
                             !.postsFiltered = filtered]
    IN /\ totalSyncs' = totalSyncs + 1
       /\ lastSync' = totalSyncs + 1
       /\ SetStorage(st1)
       /\ IF st1.threw
          THEN /\ totalErrors' = totalErrors + 1
               /\ lastError' = "storage"
               /\ Return(c, [cy EXCEPT !.result = "failure"])
          ELSE /\ UNCHANGED <<totalErrors, lastError>>
               /\ Return(c, [cy EXCEPT !.result = "success", !.fetchOk = TRUE,
                                       !.endIds = SeqToSet(st1.data.postedIds),
                                       !.endProcessed = st1.data.totalProcessed])

\* performSync(): fetchNewPosts() returned a failure result
FetchFailed(c) ==
    /\ cyc[c].pc = "fetching"
    /\ \E code \in FetchErrorCodes :
          LET cy == [cyc[c] EXCEPT !.fetchError = code] IN
          IF isAuthError(code)
          THEN /\ Return(c, [cy EXCEPT !.result = "success"])
               /\ UNCHANGED <<totalErrors, lastError>>
          ELSE SyncCatch(c, cy, code)
    /\ UNCHANGED <<storageVars, isRunning, isShuttingDown, cronJob, totalSyncs,
                   lastSync, startPc, redditTest, stopPc, calls, writeFailures, delivered,
                   sendVars, authVars, libVars, concVars, healthVars, rateVars, lifeVars>>

\* performSync(): fetchNewPosts() returned allPosts; filter against the ledger
FetchDone(c) ==
    /\ cyc[c].pc = "fetching"
    /\ \E allPosts \in FetchLists, wl, wr \in WriteOutcomes :
          LET st == IF allPosts = <<>> THEN Storage ELSE ensureLoaded(Storage, wl)
              newPosts == SelectSeq(allPosts, LAMBDA p : ~hasPostId(st, p))
              filtered == Len(allPosts) - Len(newPosts)
          IN IF st.threw
             THEN /\ SyncCatch(c, cyc[c], "storage")
                  /\ SetStorage(st)
                  /\ UNCHANGED <<totalSyncs, lastSync, writeFailures>>
             ELSE IF newPosts = <<>>
             THEN /\ NothingToSend(c, st, allPosts, filtered, wl, wr)
                  /\ CountWrites(Storage, updateLastCheck(st, Stamped, wl, wr), wl, wr)
             ELSE /\ cyc' = [cyc EXCEPT
                                ![c].pc = "sending",
                                ![c].fetchOk = TRUE,
                                ![c].fetched = allPosts,
                                ![c].newPosts = newPosts,
                                ![c].postsFound = Len(allPosts),
                                ![c].postsFiltered = filtered]
                  /\ SetStorage(st)
                  /\ CountWrites(Storage, st, wl, TRUE)
                  /\ Forget
                  /\ UNCHANGED <<totalSyncs, lastSync, totalErrors, lastError>>
    /\ UNCHANGED <<isRunning, isShuttingDown, cronJob, startPc, redditTest, stopPc, calls,
                   delivered, sendVars, authVars, libVars, concVars, healthVars, rateVars, lifeVars>>

\* variant: the catch block of the loop does not count the failure
sendCountsThrowUncounted(cy, post, outcome) ==
    IF outcome = "ok"
    THEN [cy EXCEPT !.postsSent = @ + 1, !.postIds = Append(@, post)]
    ELSE IF outcome = "fail" THEN [cy EXCEPT !.postsFailed = @ + 1] ELSE cy

\* variant: a delivered post is counted but its id is not kept for the ledger
sendCountsIdDropped(cy, post, outcome) ==
    IF outcome = "ok"
    THEN [cy EXCEPT !.postsSent = @ + 1]
    ELSE [cy EXCEPT !.postsFailed = @ + 1]

\* the counting of one iteration of the delivery loop
sendCounts(cy, post, outcome) ==
    IF outcome = "ok"
    THEN [cy EXCEPT !.postsSent = @ + 1, !.postIds = Append(@, post)]
    ELSE [cy EXCEPT !.postsFailed = @ + 1]

\* variant: an exception of sendRedditPost leaves the loop
afterSendThrowLeavesLoop(cy, outcome) ==
    IF outcome # "throw" /\ cy.idx < Len(cy.newPosts) THEN "sending" ELSE "storing"

\* where the cycle is after the iteration for newPosts[idx]: the try/catch is
\* inside the loop, so the next item follows whatever the outcome
afterSend(cy, outcome) == IF cy.idx < Len(cy.newPosts) THEN "sending" ELSE "storing"

\* one iteration of the delivery loop: the post is handed to the sink, the
\* outcome is counted, then the spacer delay
SendPost(c) ==
    /\ cyc[c].pc = "sending"
    /\ \E outcome \in SendOutcomes :
          LET post == cyc[c].newPosts[cyc[c].idx]
              cy == sendCounts(cyc[c], post, outcome)
          IN /\ cyc' = [cyc EXCEPT ![c] =
                           [cy EXCEPT !.handed = Append(@, post),
                                      !.pc = afterSend(cyc[c], outcome),
                                      !.idx = @ + 1]]
             /\ delivered' = IF outcome = "ok" /\ delivered[post] < 2
                             THEN [delivered EXCEPT ![post] = @ + 1]
                             ELSE delivered
    /\ Forget
    /\ UNCHANGED <<storageVars, isRunning, isShuttingDown, cronJob, totalSyncs,
                   totalErrors, lastSync, lastError, startPc, redditTest, stopPc, calls, writeFailures, sendVars, authVars, libVars, concVars, healthVars, rateVars, lifeVars>>

\* after the loop: addPostIds(postIds) when any delivery succeeded (a failure
\* result is only logged)
StoreIds(c) ==
    /\ cyc[c].pc = "storing"
    /\ \E wr \in WriteOutcomes :
          IF cyc[c].postIds # <<>>
          THEN LET st == addPostIds(Storage, cyc[c].postIds, TRUE, wr)
               IN /\ SetStorage(st)
                  /\ CountWrites(Storage, st, TRUE, wr)
                  /\ cyc' = [cyc EXCEPT ![c].pc = "stamping",
                                        ![c].persistFailed = ~st.ok]
          ELSE /\ UNCHANGED <<storageVars, writeFailures>>
               /\ cyc' = [cyc EXCEPT ![c].pc = "stamping"]
    /\ Forget
    /\ UNCHANGED <<isRunning, isShuttingDown, cronJob, totalSyncs, totalErrors,
                   lastSync, lastError, startPc, redditTest, stopPc, calls,
                   delivered, sendVars, authVars, libVars, concVars, healthVars, rateVars, lifeVars>>

\* updateLastCheck(), the totals, and the success return
Stamp(c) ==
    /\ cyc[c].pc = "stamping"
    /\ \E wr \in WriteOutcomes :
          LET st == updateLastCheck(Storage, Stamped, TRUE, wr) IN
          /\ SetStorage(st)
          /\ CountWrites(Storage, st, TRUE, wr)
          /\ Return(c, [cyc[c] EXCEPT !.result = "success",
                                      !.persistFailed = @ \/ ~st.ok,
                                      !.endIds = SeqToSet(st.data.postedIds),
                                      !.endProcessed = st.data.totalProcessed])
    /\ totalSyncs' = totalSyncs + 1
    /\ lastSync' = totalSyncs + 1
    /\ UNCHANGED <<isRunning, isShuttingDown, cronJob, totalErrors, lastError,
                   startPc, redditTest, stopPc, calls, delivered, sendVars, authVars, libVars, concVars, healthVars, rateVars, lifeVars>>

\* a call is made
Call ==
    /\ calls < MaxCalls
    /\ calls' = calls + 1

\* performSync() called directly
ManualSync ==
    /\ Call
    /\ Begin("manual")
    /\ UNCHANGED <<storageVars, isRunning, isShuttingDown, cronJob, totalSyncs,
                   totalErrors, lastSync, lastError, startPc, redditTest, stopPc,
                   writeFailures, delivered, sendVars, authVars, libVars, concVars, healthVars, rateVars, lifeVars>>

\* the cron callback: node-cron calls it at every matching time and does not
\* wait for the promise of an earlier call
Tick ==
    /\ cronJob
    /\ ~isShuttingDown
    /\ Call
    /\ Begin("tick")
    /\ UNCHANGED <<storageVars, isRunning, isShuttingDown, cronJob, totalSyncs,
                   totalErrors, lastSync, lastError, startPc, redditTest, stopPc,
                   writeFailures, delivered, sendVars, authVars, libVars, concVars, healthVars, rateVars, lifeVars>>

\* variant: start() does not look at isRunning
alreadyRunningIgnored(running) == FALSE

\* the test "if (this.isRunning)" at the top of start()
alreadyRunning(running) == running

\* start() on a running bot: the early return
StartAlreadyRunning ==
    /\ alreadyRunning(isRunning)
    /\ Call
    /\ LifeReturn([NoLife EXCEPT !.op = "start", !.ok = TRUE, !.early = TRUE])
    /\ UNCHANGED <<storageVars, isRunning, isShuttingDown, cronJob, totalSyncs,
                   totalErrors, lastSync, lastError, startPc, redditTest, stopPc,
                   cyc, writeFailures, delivered, sendVars, authVars, libVars,
                   concVars, healthVars, rateVars, lifeVars>>

\* start() up to the await of the initial performSync: storage.load(),
\* testConnections() (sourceOk, sinkOk = what the two tests give)
StartBegin ==
    /\ startPc = "idle"
    /\ ~alreadyRunning(isRunning)
    /\ Call
    /\ \E wr \in WriteOutcomes, sourceOk \in BOOLEAN, discordOk \in BOOLEAN :
          LET st == load(Storage, wr) IN
          /\ SetStorage(st)
          /\ CountWrites(Storage, st, TRUE, wr)
          /\ IF st.ok /\ discordOk
             THEN /\ Begin("start")
                  /\ startPc' = "syncing"
                  /\ redditTest' = IF sourceOk THEN "ok" ELSE "failed"
                  /\ UNCHANGED <<totalErrors, lastError>>
             ELSE /\ totalErrors' = totalErrors + 1
                  /\ lastError' = IF st.ok THEN "discord" ELSE "storage"
                  /\ LifeReturn([NoLife EXCEPT
                          !.op = "start", !.ok = FALSE, !.loadOk = st.ok,
                          \* the tests are not reached when the load has failed
                          !.sourceOk = (~st.ok \/ sourceOk),
                          !.sinkOk = (~st.ok \/ discordOk)])
                  /\ UNCHANGED <<startPc, redditTest, cyc>>
    /\ UNCHANGED <<isRunning, isShuttingDown, cronJob, totalSyncs, lastSync,
                   stopPc, delivered, sendVars, authVars, libVars, concVars, healthVars, rateVars, lifeVars>>

\* start() after the initial performSync returned: cron.schedule() and
\* cronJob.start(); scheduleOk = node-cron accepts the expression, which
\* loadScheduleConfig has only checked for its number of fields
StartFinish ==
    /\ startPc = "syncing"
    /\ \A c \in Cycles : cyc[c].origin # "start"
    /\ \E scheduleOk \in BOOLEAN :
          /\ IF scheduleOk
             THEN /\ cronJob' = TRUE
                  /\ isRunning' = TRUE
                  /\ UNCHANGED <<totalErrors, lastError>>
             ELSE /\ totalErrors' = totalErrors + 1
                  /\ lastError' = "schedule"
                  /\ UNCHANGED <<cronJob, isRunning>>
          /\ LifeReturn([NoLife EXCEPT
                  !.op = "start", !.ok = scheduleOk, !.synced = TRUE,
                  !.sourceOk = (redditTest = "ok"), !.scheduleOk = scheduleOk])
    /\ startPc' = "idle"
    /\ redditTest' = "none"
    /\ UNCHANGED <<storageVars, isShuttingDown, totalSyncs,
                   lastSync, stopPc, cyc, calls,
                   writeFailures, delivered, sendVars, authVars, libVars, concVars, healthVars, rateVars, lifeVars>>

\* stop() on a bot that is not running: the early return
StopNotRunning ==
    /\ ~isRunning
    /\ Call
    /\ LifeReturn([NoLife EXCEPT !.op = "stop", !.ok = TRUE, !.early = TRUE])
    /\ UNCHANGED <<storageVars, isRunning, isShuttingDown, cronJob, totalSyncs,
                   totalErrors, lastSync, lastError, startPc, redditTest, stopPc,
                   cyc, writeFailures, delivered, sendVars, authVars, libVars,
                   concVars, healthVars, rateVars, lifeVars>>

\* stop() up to the await of the file write of updateLastCheck()
StopBegin ==
    /\ stopPc = "idle"
    /\ isRunning
    /\ Call
    /\ isShuttingDown' = TRUE
    /\ cronJob' = FALSE
    /\ data' = [data EXCEPT !.lastCheck = Stamped]
    /\ stopPc' = "saving"
    /\ Forget
    /\ UNCHANGED <<isLoaded, file, isRunning, totalSyncs, totalErrors, lastSync,
                   lastError, startPc, redditTest, cyc, writeFailures, delivered,
                   sendVars, authVars, libVars, concVars, healthVars, rateVars, lifeVars>>

\* variant: the shutdown flag is left set
afterStopFlagLeft == [isRunning |-> FALSE, isShuttingDown |-> TRUE]

\* the two assignments that end stop()
afterStop == [isRunning |-> FALSE, isShuttingDown |-> FALSE]

\* stop() after the write
StopFinish ==
    /\ stopPc = "saving"
    /\ \E wr \in WriteOutcomes :
          LET st == save(Storage, wr)
          IN SetStorage(st) /\ CountWrites(Storage, st, TRUE, wr)
    /\ isRunning' = afterStop.isRunning
    /\ isShuttingDown' = afterStop.isShuttingDown
    /\ stopPc' = "idle"
    /\ LifeReturn([NoLife EXCEPT !.op = "stop", !.ok = TRUE])
    /\ UNCHANGED <<cronJob, totalSyncs, totalErrors, lastSync, lastError,
                   startPc, redditTest, cyc, calls, delivered, sendVars, authVars,
                   libVars, concVars, healthVars, rateVars, lifeVars>>

----------------------------------------------------------------------------
(* RedditDiscordBot.getHealthStatus *)

\* number of steps of a run that reports health
MaxHealthCalls == 5

\* the age of the last successful sync beyond which health is "unhealthy", in ms
HealthWindow == 3600000

\* amounts by which Date.now() moves between two steps, in ms
HealthAdvances == {1, HealthWindow}

\* no getHealthStatus call has returned yet
NoHealth == [status |-> "none", lastSync |-> 0, totalErrors |-> 0, at |-> 0]

\* let status = "healthy"; if (totalErrors > 0 && lastSync && now - lastSync >
\* 3600000) "unhealthy"; else if (totalErrors > 0) "degraded"
status(errors, last, at) ==
    IF errors > 0 /\ last # 0 /\ at - last > HealthWindow THEN "unhealthy"
    ELSE IF errors > 0 THEN "degraded"
    ELSE "healthy"

\* getHealthStatus(): storage.getStats() first, which throws when the ledger
\* cannot be loaded; then the status from the counters
GetHealthStatus ==
    /\ calls < MaxHealthCalls
    /\ calls' = calls + 1
    /\ \E statsOk \in BOOLEAN :
          health' = IF statsOk
                    THEN [status |-> status(totalErrors, lastSync, clock),
                          lastSync |-> lastSync, totalErrors |-> totalErrors,
                          at |-> clock]
                    ELSE [NoHealth EXCEPT !.status = "threw", !.at = clock]
    /\ UNCHANGED <<isRunning, isShuttingDown, cronJob, totalSyncs, totalErrors,
                   lastSync, lastError, startPc, redditTest, life, stopPc, cyc,
                   returned, writeFailures, delivered, storageVars, sendVars,
                   authVars, libVars, concVars, rateVars, lifeVars>>

\* a cycle ends successfully: totalSyncs++, lastSync = Date.now()
CycleSucceeds ==
    /\ calls < MaxHealthCalls
    /\ calls' = calls + 1
    /\ totalSyncs' = totalSyncs + 1
    /\ lastSync' = clock
    /\ UNCHANGED <<isRunning, isShuttingDown, cronJob, totalErrors, lastError,
                   startPc, redditTest, life, stopPc, cyc, returned,
                   writeFailures, delivered, storageVars, sendVars, authVars,
                   libVars, concVars, healthVars, rateVars, lifeVars>>

\* a cycle ends in its catch block: totalErrors++, lastError set
CycleFails ==
    /\ calls < MaxHealthCalls
    /\ calls' = calls + 1
    /\ totalErrors' = totalErrors + 1
    /\ lastError' = "sync"
    /\ UNCHANGED <<isRunning, isShuttingDown, cronJob, totalSyncs, lastSync,
                   startPc, redditTest, life, stopPc, cyc, returned,
                   writeFailures, delivered, storageVars, sendVars, authVars,
                   libVars, concVars, healthVars, rateVars, lifeVars>>

\* time passes between two calls
TimePasses ==
    /\ calls < MaxHealthCalls
    /\ calls' = calls + 1
    /\ \E d \in HealthAdvances : clock' = clock + d
    /\ UNCHANGED <<tokenFile, env, apc, tok, issued, exchangeCalls,
                   exchangeFailed, lastExchange, tokenCalls, advances,
                   storageVars, sendVars, libVars, concVars, healthVars,
                   isRunning, isShuttingDown, cronJob, totalSyncs,
                   totalErrors, lastSync, lastError, startPc, redditTest, life,
                   stopPc, cyc, returned, writeFailures, delivered, rateVars, lifeVars>>

HealthIdle == health = NoHealth

----------------------------------------------------------------------------
(* DiscordService: enforceRateLimit and the deliveries of one instance *)

\* number of sendRedditPost calls made on the instance
MaxSenders == 3

\* length of the period observed, in ms
MaxRateSpan == 2000

rateLimitDelay == 1000

\* the delay between two posts in the loop of sendRedditPosts
postsDelay == 500

\* amounts by which time moves when no timer is due earlier, in ms
RateSteps == {250, 500}

Senders == 1..MaxSenders

\* what a client.post gives, as far as the loop of sendWithRetry tells apart
RateOutcomes == {"ok", "clientError", "retryable"}

NoSender == [pc |-> "idle", via |-> "none", attempt |-> 0, due |-> 0, doneAt |-> 0]

\* the waitTime of enforceRateLimit(); 0 = no wait
waitTime(now, last) ==
    IF now - last < rateLimitDelay THEN rateLimitDelay - (now - last) ELSE 0

\* sendWithRetry calls client.post for call k, for the n-th time
StartRequest(k, n) ==
    starts' = Append(starts, [call |-> k, attempt |-> n, at |-> clock])

\* a sendRedditPost call is made, directly or by the loop of sendRedditPosts
\* (which awaits the call before and then its delay): enforceRateLimit()
\* reads the clock and lastRequestTime and either sets its timer, or stamps
\* lastRequestTime and goes on to the first client.post
CallSendRedditPost(k) ==
    /\ sender[k].pc = "idle"
    /\ \A j \in 1..(k - 1) : sender[j].pc # "idle"
    /\ \E via \in {"direct", "batch"} :
          /\ via = "batch" =>
                \A j \in Senders : sender[j].via = "batch" =>
                    (sender[j].pc = "done" /\ clock >= sender[j].doneAt + postsDelay)
          /\ LET w == waitTime(clock, lastRequestTime) IN
             IF w > 0
             THEN /\ sender' = [sender EXCEPT ![k] =
                        [NoSender EXCEPT !.pc = "limited", !.via = via,
                                         !.due = clock + w]]
                  /\ UNCHANGED <<lastRequestTime, starts>>
             ELSE /\ sender' = [sender EXCEPT ![k] =
                        [NoSender EXCEPT !.pc = "posting", !.via = via,
                                         !.attempt = 1]]
                  /\ lastRequestTime' = clock
                  /\ StartRequest(k, 1)
    /\ UNCHANGED <<storageVars, botVars, sendVars, authVars, libVars, concVars,
                   healthVars, lifeVars>>

\* the timer of enforceRateLimit() fires: lastRequestTime = Date.now(), then
\* the first client.post
RateLimitOver(k) ==
    /\ sender[k].pc = "limited"
    /\ clock >= sender[k].due
    /\ lastRequestTime' = clock
    /\ sender' = [sender EXCEPT ![k].pc = "posting", ![k].attempt = 1]
    /\ StartRequest(k, 1)
    /\ UNCHANGED <<storageVars, botVars, sendVars, authVars, libVars, concVars,
                   healthVars, lifeVars>>

\* client.post settles: return, or the backoff timer of sendWithRetry
Responds(k) ==
    /\ sender[k].pc = "posting"
    /\ \E o \in RateOutcomes, jitter \in Jitters :
          sender' = [sender EXCEPT ![k] =
              IF o = "retryable" /\ sender[k].attempt < maxRetries
              THEN [@ EXCEPT !.pc = "backoff",
                             !.due = clock + calculateRetryDelay(sender[k].attempt, jitter)]
              ELSE [@ EXCEPT !.pc = "done", !.doneAt = clock]]
    /\ UNCHANGED <<lastRequestTime, starts, storageVars, botVars, sendVars,
                   authVars, libVars, concVars, healthVars, lifeVars>>

\* the backoff timer fires: the next attempt's client.post
BackoffOver(k) ==
    /\ sender[k].pc = "backoff"
    /\ clock >= sender[k].due
    /\ sender' = [sender EXCEPT ![k].pc = "posting", ![k].attempt = @ + 1]
    /\ StartRequest(k, sender[k].attempt + 1)
    /\ UNCHANGED <<lastRequestTime, storageVars, botVars, sendVars, authVars,
                   libVars, concVars, healthVars, lifeVars>>

\* the times at which a timer that is set will fire
Dues == {sender[k].due : k \in {j \in Senders : sender[j].pc \in {"limited", "backoff"}}}

\* time moves on, up to the next timer; a timer that is due fires first
RateTimePasses ==
    /\ \A d \in Dues : d > clock
    /\ \E t \in {clock + d : d \in RateSteps} \cup Dues :
          /\ \A d \in Dues : t <= d
          /\ t <= StartTime + MaxRateSpan
          /\ clock' = t
    /\ UNCHANGED <<tokenFile, env, apc, tok, issued, exchangeCalls,
                   exchangeFailed, lastExchange, tokenCalls, advances,
                   storageVars, botVars, sendVars, libVars, concVars,
                   healthVars, rateVars, lifeVars>>

\* a DiscordService on which nothing has been sent
RateIdle ==
    /\ lastRequestTime = 0
    /\ sender = [k \in Senders |-> NoSender]
    /\ starts = <<>>

----------------------------------------------------------------------------
(* RedditDiscordBot: start() and stop() calls that overlap.  The ledger     *)
(* load, the connection tests and the initial performSync of start() are    *)
(* awaits here; what they do to the ledger and the counters is in Spec.     *)

\* number of start() calls that can be in flight at once
MaxStarters == 2

\* number of start() and stop() calls made
MaxLifeCalls == 4

Starters == 1..MaxStarters

LifeCall ==
    /\ calls < MaxLifeCalls
    /\ calls' = calls + 1

\* the catch block of start()
StartCatch(k, msg) ==
    /\ totalErrors' = totalErrors + 1
    /\ lastError' = msg
    /\ starting' = [starting EXCEPT ![k] = "idle"]

\* start(): the isRunning test, then up to the await of storage.load()
StartCalled(k) ==
    /\ starting[k] = "idle"
    /\ \A j \in 1..(k - 1) : starting[j] # "idle"
    /\ LifeCall
    /\ starting' = [starting EXCEPT ![k] =
                       IF alreadyRunning(isRunning) THEN "idle" ELSE "loading"]
    /\ UNCHANGED <<storageVars, isRunning, isShuttingDown, cronJob, totalSyncs,
                   totalErrors, lastSync, lastError, startPc, redditTest, life,
                   stopPc, cyc, returned, writeFailures, delivered, armed,
                   sendVars, authVars, libVars, concVars, healthVars, rateVars>>

\* storage.load() returned: failure throws, success goes on to the await of
\* testConnections()
StartLoaded(k) ==
    /\ starting[k] = "loading"
    /\ \E loadOk \in BOOLEAN :
          IF loadOk
          THEN /\ starting' = [starting EXCEPT ![k] = "testing"]
               /\ UNCHANGED <<totalErrors, lastError>>
          ELSE StartCatch(k, "storage")
    /\ UNCHANGED <<storageVars, isRunning, isShuttingDown, cronJob, totalSyncs,
                   lastSync, startPc, redditTest, life, stopPc, cyc, returned,
                   calls, writeFailures, delivered, armed,
                   sendVars, authVars, libVars, concVars, healthVars, rateVars>>

\* testConnections() returned or threw (the Discord test failed); then the
\* await of the initial performSync()
StartTested(k) ==
    /\ starting[k] = "testing"
    /\ \E discordOk \in BOOLEAN :
          IF discordOk
          THEN /\ starting' = [starting EXCEPT ![k] = "syncing"]
               /\ UNCHANGED <<totalErrors, lastError>>
          ELSE StartCatch(k, "discord")
    /\ UNCHANGED <<storageVars, isRunning, isShuttingDown, cronJob, totalSyncs,
                   lastSync, startPc, redditTest, life, stopPc, cyc, returned,
                   calls, writeFailures, delivered, armed,
                   sendVars, authVars, libVars, concVars, healthVars, rateVars>>

\* the initial performSync() returned: this.cronJob = cron.schedule(...),
\* this.cronJob.start(), this.isRunning = true; the task this.cronJob referred
\* to before stays as it is
StartScheduled(k) ==
    /\ starting[k] = "syncing"
    /\ \E scheduleOk \in BOOLEAN :
          IF scheduleOk
          THEN /\ cronJob' = TRUE
               /\ armed' = armed + 1
               /\ isRunning' = TRUE
               /\ starting' = [starting EXCEPT ![k] = "idle"]
               /\ UNCHANGED <<totalErrors, lastError>>
          ELSE /\ StartCatch(k, "schedule")
               /\ UNCHANGED <<cronJob, armed, isRunning>>
    /\ UNCHANGED <<storageVars, isShuttingDown, totalSyncs,
                   lastSync, startPc, redditTest, life, stopPc, cyc, returned,
                   calls, writeFailures, delivered,
                   sendVars, authVars, libVars, concVars, healthVars, rateVars>>

\* stop(): the early return when not running; else the flag, cronJob.stop()
\* on the task this.cronJob refers to, and the await of updateLastCheck()
StopCalled ==
    /\ stopPc = "idle"
    /\ LifeCall
    /\ IF ~isRunning
       THEN UNCHANGED <<isShuttingDown, cronJob, armed, stopPc>>
       ELSE /\ isShuttingDown' = TRUE
            /\ cronJob' = FALSE
            /\ armed' = IF cronJob THEN armed - 1 ELSE armed
            /\ stopPc' = "saving"
    /\ UNCHANGED <<storageVars, isRunning, totalSyncs, totalErrors, lastSync,
                   lastError, startPc, redditTest, life, cyc, returned,
                   writeFailures, delivered, starting,
                   sendVars, authVars, libVars, concVars, healthVars, rateVars>>

\* stop() after updateLastCheck(): the two flags are cleared
StopSaved ==
    /\ stopPc = "saving"
    /\ isRunning' = afterStop.isRunning
    /\ isShuttingDown' = afterStop.isShuttingDown
    /\ stopPc' = "idle"
    /\ UNCHANGED <<storageVars, cronJob, totalSyncs, totalErrors, lastSync,
                   lastError, startPc, redditTest, life, cyc, returned, calls,
                   writeFailures, delivered, lifeVars,
                   sendVars, authVars, libVars, concVars, healthVars, rateVars>>

\* a bot on which neither start() nor stop() has been called
LifeIdle ==
    /\ starting = [k \in Starters |-> "idle"]
    /\ armed = 0

----------------------------------------------------------------------------
(* RedditDiscordBot: a running bot whose schedule keeps firing.  The cycle   *)
(* is the one of Spec; the counters totalSyncs, totalErrors, lastSync and    *)
(* lastError, which no step of a cycle reads, are left out so that the       *)
(* schedule can fire without end.                                            *)

\* the item the source keeps returning
Item == "B"

\* lists a fetch returns while the item is in the source's listing
LiveFetchLists == {s \in FetchLists : Includes(s, Item)}

\* the cron callback
LiveTick ==
    /\ cronJob
    /\ ~isShuttingDown
    /\ Begin("tick")
    /\ UNCHANGED <<storageVars, isRunning, isShuttingDown, cronJob, totalSyncs,
                   totalErrors, lastSync, lastError, startPc, redditTest, stopPc,
                   calls, writeFailures, delivered, sendVars, authVars, libVars,
                   concVars, healthVars, rateVars, lifeVars>>

\* performSync(): fetchNewPosts() returned a failure result
LiveFetchFailed(c) ==
    /\ cyc[c].pc = "fetching"
    /\ \E code \in FetchErrorCodes :
          Return(c, [cyc[c] EXCEPT
                        !.fetchError = code,
                        !.result = IF isAuthError(code) THEN "success" ELSE "failure"])
    /\ UNCHANGED <<storageVars, isRunning, isShuttingDown, cronJob, totalSyncs,
                   totalErrors, lastSync, lastError, startPc, redditTest, stopPc,
                   calls, writeFailures, delivered, sendVars, authVars, libVars,
                   concVars, healthVars, rateVars, lifeVars>>

\* performSync(): fetchNewPosts() returned allPosts; filter against the
\* ledger; with nothing new, updateLastCheck() and the early return
LiveFetchDone(c) ==
    /\ cyc[c].pc = "fetching"
    /\ \E allPosts \in LiveFetchLists, wr \in WriteOutcomes :
          LET st == ensureLoaded(Storage, TRUE)
              newPosts == SelectSeq(allPosts, LAMBDA p : ~hasPostId(st, p))
              filtered == Len(allPosts) - Len(newPosts)
              st1 == updateLastCheck(st, Stamped, TRUE, wr)
              cy == [cyc[c] EXCEPT !.fetchOk = TRUE,
                                   !.fetched = allPosts,
                                   !.postsFound = Len(allPosts),
                                   !.postsFiltered = filtered]
          IN IF newPosts = <<>>
             THEN /\ SetStorage(st1)
                  /\ CountWrites(Storage, st1, TRUE, wr)
                  /\ Return(c, [cy EXCEPT !.result = "success"])
             ELSE /\ cyc' = [cyc EXCEPT ![c] =
                                [cy EXCEPT !.pc = "sending", !.newPosts = newPosts]]
                  /\ Forget
                  /\ UNCHANGED <<storageVars, writeFailures>>
    /\ UNCHANGED <<isRunning, isShuttingDown, cronJob, totalSyncs,
                   totalErrors, lastSync, lastError, startPc, redditTest, stopPc,
                   calls, delivered, sendVars, authVars, libVars,
                   concVars, healthVars, rateVars, lifeVars>>

\* one iteration of the delivery loop, the sink giving the outcome
LiveSendPost(c, outcome) ==
    /\ cyc[c].pc = "sending"
    /\ LET post == cyc[c].newPosts[cyc[c].idx]
           cy == sendCounts(cyc[c], post, outcome)
       IN /\ cyc' = [cyc EXCEPT ![c] =
                        [cy EXCEPT !.handed = Append(@, post),
                                   !.pc = afterSend(cyc[c], outcome),
                                   !.idx = @ + 1]]
          /\ delivered' = IF outcome = "ok" /\ delivered[post] < 2
                          THEN [delivered EXCEPT ![post] = @ + 1]
                          ELSE delivered
    /\ Forget
    /\ UNCHANGED <<storageVars, isRunning, isShuttingDown, cronJob, totalSyncs,
                   totalErrors, lastSync, lastError, startPc, redditTest, stopPc,
                   calls, writeFailures, sendVars, authVars, libVars,
                   concVars, healthVars, rateVars, lifeVars>>

\* after the loop: addPostIds(postIds) when any delivery succeeded
LiveStoreIds(c) ==
    /\ cyc[c].pc = "storing"
    /\ \E wr \in WriteOutcomes :
          IF cyc[c].postIds # <<>>
          THEN LET st == addPostIds(Storage, cyc[c].postIds, TRUE, wr)
               IN /\ SetStorage(st)
                  /\ CountWrites(Storage, st, TRUE, wr)
                  /\ cyc' = [cyc EXCEPT ![c].pc = "stamping",
                                        ![c].persistFailed = ~st.ok]
          ELSE /\ UNCHANGED <<storageVars, writeFailures>>
               /\ cyc' = [cyc EXCEPT ![c].pc = "stamping"]
    /\ Forget
    /\ UNCHANGED <<isRunning, isShuttingDown, cronJob, totalSyncs, totalErrors,
                   lastSync, lastError, startPc, redditTest, stopPc, calls,
                   delivered, sendVars, authVars, libVars, concVars,
                   healthVars, rateVars, lifeVars>>

\* updateLastCheck() and the success return
LiveStamp(c) ==
    /\ cyc[c].pc = "stamping"
    /\ \E wr \in WriteOutcomes :
          LET st == updateLastCheck(Storage, Stamped, TRUE, wr) IN
          /\ SetStorage(st)
          /\ CountWrites(Storage, st, TRUE, wr)
          /\ Return(c, [cyc[c] EXCEPT !.result = "success",
                                      !.persistFailed = @ \/ ~st.ok])
    /\ UNCHANGED <<isRunning, isShuttingDown, cronJob, totalSyncs, totalErrors,
                   lastSync, lastError, startPc, redditTest, stopPc, calls,
                   delivered, sendVars, authVars, libVars, concVars,
                   healthVars, rateVars, lifeVars>>

\* ledgers a bot can have loaded when start() returns
LiveLedgers == {DEFAULT_STORAGE_DATA} \cup {f.data : f \in {g \in InitFiles : g.kind = "valid"}}

\* a bot on which start() has returned success
LiveInit ==
    /\ data \in LiveLedgers
    /\ isLoaded = TRUE
    /\ file = ValidFile(data)
    /\ isRunning = TRUE
    /\ isShuttingDown = FALSE
    /\ cronJob = TRUE
    /\ totalSyncs = 0
    /\ totalErrors = 0
    /\ lastSync = 0
    /\ lastError = "none"
    /\ startPc = "idle"
    /\ redditTest = "none"
    /\ life = NoLife
    /\ stopPc = "idle"
    /\ cyc = [c \in Cycles |-> IdleCycle]
    /\ returned = IdleCycle
    /\ calls = 0
    /\ writeFailures = 0
    /\ delivered = [i \in Ids |-> 0]

SendIdle ==
    /\ spc = "off"
    /\ attempt = 0
    /\ sendLastError = NullError
    /\ posts = <<>>
    /\ waits = <<>>
    /\ sendResult = NoResult

\* a constructed RedditDiscordBot
BotInit ==
    /\ data = DEFAULT_STORAGE_DATA
    /\ isLoaded = FALSE
    /\ file \in InitFiles
    /\ isRunning = FALSE
    /\ isShuttingDown = FALSE
    /\ cronJob = FALSE
    /\ totalSyncs = 0
    /\ totalErrors = 0
    /\ lastSync = 0
    /\ lastError = "none"
    /\ startPc = "idle"
    /\ redditTest = "none"
    /\ life = NoLife
    /\ stopPc = "idle"
    /\ cyc = [c \in Cycles |-> IdleCycle]
    /\ returned = IdleCycle
    /\ calls = 0
    /\ writeFailures = 0
    /\ delivered = [i \in Ids |-> 0]

Init ==
    /\ BotInit
    /\ SendIdle
    /\ AuthIdle
    /\ LibIdle
    /\ ConcIdle
    /\ LifeIdle
    /\ RateIdle
    /\ HealthIdle

Next ==
    \/ StartAlreadyRunning
    \/ StartBegin
    \/ StartFinish
    \/ StopNotRunning
    \/ StopBegin
    \/ StopFinish
    \/ Tick
    \/ ManualSync
    \/ \E c \in Cycles : FetchFailed(c)
    \/ \E c \in Cycles : FetchDone(c)
    \/ \E c \in Cycles : SendPost(c)
    \/ \E c \in Cycles : StoreIds(c)
    \/ \E c \in Cycles : Stamp(c)

Spec == Init /\ [][Next]_vars

\* a constructed DiscordService and one sendRedditPost call
InitSend ==
    /\ BotInit
    /\ file = NoFile
    /\ SendIdle
    /\ AuthIdle
    /\ LibIdle
    /\ ConcIdle
    /\ LifeIdle
    /\ RateIdle
    /\ HealthIdle

NextSend ==
    \/ SendRedditPost
    \/ Post
    \/ Retry

SpecSend == InitSend /\ [][NextSend]_vars

\* a constructed RedditService, with the token file and environment it finds
InitAuth ==
    /\ BotInit
    /\ file = NoFile
    /\ SendIdle
    /\ AuthInit
    /\ LibIdle
    /\ ConcIdle
    /\ LifeIdle
    /\ RateIdle
    /\ HealthIdle

NextAuth ==
    \/ GetToken
    \/ ExchangeResponds
    \/ RefreshResponds
    \/ ApiResponds
    \/ Advance

SpecAuth == InitAuth /\ [][NextAuth]_vars

\* a process that uses the storage module, before any instance exists
InitStore ==
    /\ BotInit
    /\ file = NoFile
    /\ SendIdle
    /\ AuthIdle
    /\ LibInit
    /\ ConcIdle
    /\ LifeIdle
    /\ RateIdle
    /\ HealthIdle

NextStore ==
    \/ \E i \in Instances : Construct(i)
    \/ \E i \in Instances : CallLoad(i)
    \/ \E i \in Instances : CallAddPostId(i)
    \/ \E i \in Instances : CallAddPostIds(i)
    \/ \E i \in Instances : CallClear(i)
    \/ \E i \in Instances : CallUpdateLastCheck(i)
    \/ \E i \in Instances : CallHasPostId(i)

SpecStore == InitStore /\ [][NextStore]_vars

\* a process that issues addPostId calls on one loaded instance without
\* awaiting them
InitConc ==
    /\ BotInit
    /\ file = NoFile
    /\ SendIdle
    /\ AuthIdle
    /\ LibIdle
    /\ ConcIdle
    /\ LifeIdle
    /\ RateIdle
    /\ HealthIdle

NextConc ==
    \/ \E k \in Callers : Issue(k)
    \/ \E k \in Callers : Push(k)
    \/ \E k \in Callers : Stringify(k)
    \/ \E k \in Callers : WriteLands(k)

SpecConc == InitConc /\ [][NextConc]_vars

\* a bot whose cycles succeed and fail while its health is asked for
InitHealth ==
    /\ BotInit
    /\ file = NoFile
    /\ SendIdle
    /\ AuthIdle
    /\ LibIdle
    /\ ConcIdle
    /\ LifeIdle
    /\ RateIdle
    /\ HealthIdle

NextHealth ==
    \/ GetHealthStatus
    \/ CycleSucceeds
    \/ CycleFails
    \/ TimePasses

SpecHealth == InitHealth /\ [][NextHealth]_vars

\* one DiscordService and the sendRedditPost calls made on it
InitRate ==
    /\ BotInit
    /\ file = NoFile
    /\ SendIdle
    /\ AuthIdle
    /\ LibIdle
    /\ ConcIdle
    /\ LifeIdle
    /\ HealthIdle
    /\ RateIdle

NextRate ==
    \/ \E k \in Senders : CallSendRedditPost(k)
    \/ \E k \in Senders : RateLimitOver(k)
    \/ \E k \in Senders : Responds(k)
    \/ \E k \in Senders : BackoffOver(k)
    \/ RateTimePasses

SpecRate == InitRate /\ [][NextRate]_vars

\* a bot whose start() and stop() are called without waiting for earlier calls
InitLife ==
    /\ BotInit
    /\ file = NoFile
    /\ SendIdle
    /\ AuthIdle
    /\ LibIdle
    /\ ConcIdle
    /\ HealthIdle
    /\ RateIdle
    /\ LifeIdle

NextLife ==
    \/ \E k \in Starters : StartCalled(k)
    \/ \E k \in Starters : StartLoaded(k)
    \/ \E k \in Starters : StartTested(k)
    \/ \E k \in Starters : StartScheduled(k)
    \/ StopCalled
    \/ StopSaved

SpecLife == InitLife /\ [][NextLife]_vars

\* a running bot; the source lists the item in every fetch that succeeds
InitLive ==
    /\ LiveInit
    /\ SendIdle
    /\ AuthIdle
    /\ LibIdle
    /\ ConcIdle
    /\ HealthIdle
    /\ RateIdle
    /\ LifeIdle

\* a step of the cycle in slot c
CycleStep(c) ==
    \/ LiveFetchFailed(c)
    \/ LiveFetchDone(c)
    \/ \E outcome \in SendOutcomes : LiveSendPost(c, outcome)
    \/ LiveStoreIds(c)
    \/ LiveStamp(c)

\* the sink accepts the item from the cycle in slot c
Accepts(c) ==
    /\ cyc[c].pc = "sending"
    /\ cyc[c].newPosts[cyc[c].idx] = Item
    /\ LiveSendPost(c, "ok")

NextLive ==
    \/ LiveTick
    \/ \E c \in Cycles : LiveFetchFailed(c)
    \/ \E c \in Cycles : LiveFetchDone(c)
    \/ \E c \in Cycles, outcome \in SendOutcomes : LiveSendPost(c, outcome)
    \/ \E c \in Cycles : LiveStoreIds(c)
    \/ \E c \in Cycles : LiveStamp(c)

\* the schedule keeps firing and every await of a cycle resolves; the fetch
\* does not fail for ever, and the sink does not refuse the item for ever
SpecLive ==
    /\ InitLive
    /\ [][NextLive]_vars
    /\ WF_vars(LiveTick)
    /\ \A c \in Cycles : WF_vars(CycleStep(c))
    /\ SF_vars(\E c \in Cycles : LiveFetchDone(c))
    /\ SF_vars(\E c \in Cycles : Accepts(c))

----------------------------------------------------------------------------
(* Properties of the sync cycle *)

\* s without the elements that lie in the set ids
Without(s, ids) == SelectSeq(s, LAMBDA p : p \notin ids)

Returned == returned.pc = "done"

\* C1: every item id is successfully delivered to the sink at most once in
\* one process, across the initial cycle of start(), scheduled ticks and
\* manual performSync calls, overlapping or not.
C1_DeliveredAtMostOnce == \A i \in Ids : delivered[i] <= 1

\* C2: in every cycle whose fetch succeeded, the items handed to the sink are
\* the fetched items minus those whose id was in the ledger when the cycle
\* started, in fetch order.
C2_HandedIsFetchedMinusStartLedger ==
    (Returned /\ returned.fetchOk) =>
        returned.handed = Without(returned.fetched, returned.startIds)

\* C3: when a cycle has completed, the ledger holds the ids it held when the
\* cycle started plus exactly the ids delivered in the cycle, and the processed
\* counter has grown by the number of those ids.
C3_LedgerGrowsByDelivered ==
    (Returned /\ returned.fetchOk /\ returned.result = "success") =>
        /\ returned.endIds = returned.startIds \cup SeqToSet(returned.postIds)
        /\ returned.endProcessed = returned.startProcessed + Len(returned.postIds)

\* C4: the statistics of a cycle that returns success after a successful fetch
\* add up: postsFound = postsSent + postsFailed + postsFiltered, with postsFound
\* the number of fetched items, postsSent the number of successful deliveries,
\* postsFailed the number of failed ones and postsFiltered the number of
\* fetched items not handed to the sink because the ledger held them.
C4_StatsAddUp ==
    (Returned /\ returned.fetchOk /\ returned.result = "success") =>
        /\ returned.postsFound = Len(returned.fetched)
        /\ returned.postsSent = Len(returned.postIds)
        /\ returned.postsFailed = Len(returned.handed) - Len(returned.postIds)
        /\ returned.postsFiltered = Len(returned.fetched) - Len(returned.newPosts)
        /\ returned.postsFound =
              returned.postsSent + returned.postsFailed + returned.postsFiltered

\* the scenario of the claim: two items found, the first rejected, the second
\* accepted, nothing filtered
C4_Witness ==
    /\ Returned /\ returned.fetchOk /\ returned.result = "success"
    /\ returned.postsFound = 2
    /\ returned.postsSent = 1
    /\ returned.postsFailed = 1
    /\ returned.postsFiltered = 0
    /\ returned.postIds = <<returned.fetched[2]>>

\* C5: a scheduled tick never begins a performSync while an earlier
\* performSync has not returned.
C5_TickWaitsForCycle ==
    [][\A c \in Cycles :
          (~Active(c) /\ cyc'[c].pc # "idle" /\ cyc'[c].origin = "tick")
              => \A d \in Cycles : ~(Active(d) /\ cyc[d].origin \in {"start", "tick"})]_vars

\* C10: a failed delivery never ends the cycle: every item of the post-filter
\* list is handed to the sink whatever happened to the items before it, and a
\* cycle with failed deliveries returns success.
C10_FailureDoesNotEndCycle ==
    /\ \A c \in Cycles :
          /\ cyc[c].pc = "sending" =>
                cyc[c].handed = SubSeq(cyc[c].newPosts, 1, cyc[c].idx - 1)
          /\ cyc[c].pc \in {"storing", "stamping"} =>
                cyc[c].handed = cyc[c].newPosts
    /\ (Returned /\ returned.newPosts # <<>>) =>
          /\ returned.handed = returned.newPosts
          /\ returned.result = "success"

\* a returned cycle whose first delivery failed and whose second item was
\* delivered all the same
C10_Witness ==
    /\ Returned /\ returned.result = "success"
    /\ Len(returned.newPosts) = 2
    /\ returned.handed = returned.newPosts
    /\ returned.postIds = <<returned.newPosts[2]>>
    /\ returned.postsFailed = 1

\* the cycle in slot c returns in this step after its fetch failed
FetchFailureReturns(c) ==
    /\ cyc[c].pc = "fetching"
    /\ cyc'[c].pc = "idle"
    /\ returned'.pc = "done"
    /\ returned'.fetchError # "none"

NoStats(cy) ==
    /\ cy.postsFound = 0
    /\ cy.postsSent = 0
    /\ cy.postsFailed = 0
    /\ cy.postsFiltered = 0

\* C11: when the fetch fails with OAUTH_NO_TOKENS, OAUTH_REFRESH_ERROR or
\* OAUTH_TOKEN_ERROR, performSync returns success with all four counts zero,
\* hands nothing to the sink, and neither totalErrors nor lastError changes.
C11_AuthFailureIsSoft ==
    [][\A c \in Cycles :
          (FetchFailureReturns(c)
             /\ returned'.fetchError \in
                   {"OAUTH_NO_TOKENS", "OAUTH_REFRESH_ERROR", "OAUTH_TOKEN_ERROR"})
          => /\ returned'.result = "success"
             /\ NoStats(returned')
             /\ returned'.handed = <<>>
             /\ delivered' = delivered
             /\ totalErrors' = totalErrors
             /\ lastError' = lastError]_vars

\* a scheduled cycle has just returned from an auth failure of its fetch
C11_Witness ==
    /\ Returned
    /\ returned.origin = "tick"
    /\ returned.fetchError = "OAUTH_TOKEN_ERROR"
    /\ returned.result = "success"

\* C12: when the fetch fails with any other code, performSync returns the
\* failure result, totalErrors grows by exactly one, lastError is set, nothing
\* is handed to the sink, and the ledger (ids, processed counter, lastCheck,
\* file), totalSyncs and lastSync are as before.
C12_OtherFetchFailureIsHard ==
    [][\A c \in Cycles :
          (FetchFailureReturns(c)
             /\ returned'.fetchError \notin
                   {"OAUTH_NO_TOKENS", "OAUTH_REFRESH_ERROR", "OAUTH_TOKEN_ERROR"})
          => /\ returned'.result = "failure"
             /\ totalErrors' = totalErrors + 1
             /\ lastError' # "none"
             /\ returned'.handed = <<>>
             /\ delivered' = delivered
             /\ data' = data
             /\ file' = file
             /\ totalSyncs' = totalSyncs
             /\ lastSync' = lastSync]_vars

\* a cycle has just returned from a REDDIT_FETCH_ERROR, with a non-empty
\* ledger and one earlier successful sync
C12_Witness ==
    /\ Returned
    /\ returned.fetchError = "REDDIT_FETCH_ERROR"
    /\ returned.result = "failure"
    /\ totalErrors = 1
    /\ totalSyncs = 1
    /\ data.postedIds # <<>>

\* C13: a cycle in which the batch add of the delivered ids or the lastCheck
\* stamp could not be written to the file returns a failure, and the error is
\* recorded in totalErrors and lastError.
C13_LedgerFailureFailsCycle ==
    (Returned /\ returned.persistFailed) =>
        /\ returned.result = "failure"
        /\ totalErrors > 0
        /\ lastError # "none"

----------------------------------------------------------------------------
(* Properties of one delivery *)

LastPost == posts[Len(posts)]

Is2xx(o) == o.kind = "resolved" /\ o.status \in 200..299
Is4xx(o) == o.status \in 400..499
NetworkOr5xx(o) == (o.kind # "resolved" /\ o.status = 0) \/ o.status \in 500..599

C7_ClientErrorTerminal ==
    \A i \in 1..Len(posts) :
        Is4xx(posts[i]) =>
            /\ i = Len(posts)
            /\ spc = "done"
            /\ ~sendResult.success
            /\ \A w \in 1..Len(waits) : waits[w].after # i

\* C8: a failed delivery carries as its wrapped cause the error of the last
\* attempt made.
C8_CarriesLastError ==
    (spc = "done" /\ ~sendResult.success) =>
        /\ sendResult.originalError.attempt = Len(posts)
        /\ sendResult.originalError.status = LastPost.status
        /\ LastPost.kind # "resolved" => sendResult.originalError.kind = LastPost.kind

\* three failed attempts with different errors
C8_Witness ==
    /\ spc = "done"
    /\ ~sendResult.success
    /\ Len(posts) = 3
    /\ posts[1].kind = "axios" /\ posts[1].status = 500
    /\ posts[3].kind = "plain"

\* C9: when every attempt is rejected with a plain (non-HTTP) error, the
\* failure has code DISCORD_SEND_ERROR, message 'Failed to send Reddit post to
\* Discord' and the rejected error as originalError.
C9_PlainErrorIsSendError ==
    (spc = "done" /\ \A i \in 1..Len(posts) : posts[i].kind = "plain") =>
        /\ sendResult.code = "DISCORD_SEND_ERROR"
        /\ sendResult.message = "Failed to send Reddit post to Discord"
        /\ sendResult.originalError.kind = "plain"

----------------------------------------------------------------------------
(* Properties of the token manager *)

\* getValidAccessToken has returned to fetchNewPosts / testConnection
TokenReturned == tok.returned

\* C14: getValidAccessToken returns the stored access token without any
\* refresh call when its expiry is more than 5 minutes (300000 ms) after the
\* current time, and makes exactly one refresh call when the expiry is at or
\* within 5 minutes of it, the expired record and the environment record with
\* expiry 0 included.
C14_ReuseOrRefreshOnce ==
    (TokenReturned /\ tok.source # "none") =>
        /\ tok.loaded.expiresAt > tok.checkedAt + 300000 =>
              /\ tok.refreshCalls = 0
              /\ tok.result.success
              /\ tok.result.token = tok.loaded.accessToken
        /\ tok.loaded.expiresAt <= tok.checkedAt + 300000 =>
              tok.refreshCalls = 1

\* a stored token that expires exactly 5 minutes from now was refreshed once
C14_Witness ==
    /\ TokenReturned
    /\ tok.source = "file"
    /\ tok.loaded.expiresAt = tok.checkedAt + 300000
    /\ tok.refreshCalls = 1

\* C15: when a refresh returns an access token, the token file holds that
\* token, its new expiry and the refresh token that was used; a refresh that
\* fails (upstream rejection or write failure) returns a failure and leaves
\* the token file as it was.
C15_PersistedBeforeReturned ==
    (TokenReturned /\ tok.refreshCalls > 0) =>
        /\ (tok.refreshAnswer # "ok" \/ tok.refreshWrite # "ok") => ~tok.result.success
        /\ tok.result.success =>
              tokenFile = TokenFileOf([refreshToken |-> tok.usedRefresh,
                                       accessToken |-> tok.result.token,
                                       expiresAt |-> tok.newExpiry])
        /\ (~tok.result.success /\ tok.fileBefore.kind = "valid") =>
              tokenFile = tok.fileBefore

\* C16: when there is no token file and the exchange of the authorization
\* code in the environment fails, getValidAccessToken fails with
\* OAUTH_CODE_EXPIRED, not with OAUTH_NO_TOKENS.
C16_ExpiredCodeIsDistinct ==
    (TokenReturned /\ tok.exchanged # "none" /\ tok.source # "exchange") =>
        /\ ~tok.result.success
        /\ tok.result.code = "OAUTH_CODE_EXPIRED"

\* C17: once the exchange of the code in the environment has failed, no
\* further authorization_code request is made for it.
C17_FailedCodeNotRetried ==
    [][exchangeFailed => exchangeCalls' = exchangeCalls]_vars

\* C18: when the upstream rejects the refresh request with a 4xx status,
\* getValidAccessToken has made exactly one refresh call and fails with
\* OAUTH_REFRESH_ERROR, and fetchNewPosts / testConnection return that code.
C18_RejectedRefreshSurfaces ==
    (TokenReturned /\ tok.refreshAnswer = "client") =>
        /\ tok.refreshCalls = 1
        /\ tok.result = TokenFailure("OAUTH_REFRESH_ERROR")
        /\ ~tok.callerResult.success
        /\ tok.callerResult.code = "OAUTH_REFRESH_ERROR"

\* fetchNewPosts has returned after a rejected refresh
C18_Witness ==
    /\ TokenReturned
    /\ tok.caller = "fetch"
    /\ tok.refreshAnswer = "client"
    /\ apc = "idle"

\* C19: exchangeCodeForTokens fails with OAUTH_CODE_EXCHANGE_ERROR when the
\* response carries no refresh_token, and then leaves the token file as it
\* was.
C19_NoRefreshTokenFails ==
    lastExchange.answer = "noRefresh" =>
        /\ lastExchange.code = "OAUTH_CODE_EXCHANGE_ERROR"
        /\ lastExchange.fileAfter = lastExchange.fileBefore

\* an exchange was answered without refresh_token while a damaged token file
\* was in place
C19_Witness ==
    /\ lastExchange.answer = "noRefresh"
    /\ lastExchange.fileBefore = UnreadableTokenFile

----------------------------------------------------------------------------
(* Properties of the storage module                                         *)

\* the last call was addPostId with an identifier the ledger already held
DuplicateAdd ==
    /\ lastOp.op = "addPostId"
    /\ Includes(lastOp.before.postedIds, lastOp.arg[1])

\* C20: addPostId with an identifier already in the ledger returns success,
\* leaves the identifier list and the processed counter as they were, and
\* writes nothing to the file.
C20_DuplicateAddIsNoOp ==
    DuplicateAdd =>
        /\ lastOp.ok
        /\ ~lastOp.threw
        /\ lastOp.after.postedIds = lastOp.before.postedIds
        /\ lastOp.after.totalProcessed = lastOp.before.totalProcessed
        /\ lastOp.writes = 0
        /\ arrays[inst[lastOp.inst].idsRef] = lastOp.before.postedIds
        /\ metas[inst[lastOp.inst].metaRef] = lastOp.before.totalProcessed

\* a loaded instance whose own earlier call stored "B" is asked to add "B"
\* again
C20_Witness ==
    /\ DuplicateAdd
    /\ lastOp.wasLoaded
    /\ lastOp.arg = <<"B">>
    /\ lastOp.before.totalProcessed > 0

\* the ids of the last call's argument that the ledger, once loaded, did not
\* hold
GenuinelyNew == SeqToSet(lastOp.arg) \ SeqToSet(lastOp.loaded.postedIds)

\* the file writes the last call made after its ensureLoaded() had returned
OwnWrites == lastOp.writes - lastOp.loadWrites

C22_NoDuplicateIds ==
    \A i \in Instances :
        /\ inst[i].made => NoDup(arrays[inst[i].idsRef])
        /\ files[i].kind = "valid" => NoDup(files[i].data.postedIds)

\* a ledger of two ids after addPostIds was given one of them twice together
\* with an id the ledger held
C22_Witness ==
    /\ lastOp.op = "addPostIds"
    /\ lastOp.arg = <<"A", "A">> \/ lastOp.arg = <<"B", "B">>
    /\ Len(lastOp.loaded.postedIds) = 1
    /\ Len(lastOp.after.postedIds) = 2
    /\ files[lastOp.inst] = ValidFile(lastOp.after)

\* C23: as long as every call made on every instance has returned success, a
\* new RedditStorage loading the file of a loaded instance gets the
\* identifier list, the processed counter and the lastCheck that instance
\* holds in memory.
C23_RoundTrip ==
    (\A j \in Instances : inst[j].clean) =>
        \A i \in Instances :
            (inst[i].made /\ inst[i].isLoaded) => Reload(i) = DataOf(i)

\* C24: load() on an instance whose file does not exist leaves an empty
\* ledger in memory (no identifiers, counter 0, no lastCheck) and, when it
\* returns success, the file exists and holds that empty ledger.
C24_AbsentFileLoadsEmpty ==
    (lastOp.op = "load" /\ lastOp.fileBefore.kind = "absent") =>
        /\ lastOp.after = DEFAULT_STORAGE_DATA
        /\ lastOp.ok => files[lastOp.inst] = ValidFile(DEFAULT_STORAGE_DATA)

\* C25: load() of a file that violates the schema fails with
\* INVALID_STORAGE_FORMAT, leaves the file as it was and the instance not
\* loaded; a hasPostId / addPostId / addPostIds / clear / updateLastCheck on
\* an instance with such a file raises an error, changes nothing in memory
\* and writes nothing.
C25_InvalidFileIsFatal ==
    lastOp.fileBefore.kind = "invalid" =>
        /\ files[lastOp.inst] = InvalidFile
        /\ ~lastOp.isLoaded
        /\ lastOp.writes = 0
        /\ lastOp.after = DataOf(lastOp.inst)
        /\ lastOp.op = "load" =>
              ~lastOp.ok /\ ~lastOp.threw /\ lastOp.code = "INVALID_STORAGE_FORMAT"
        /\ lastOp.op # "load" => lastOp.threw

\* a hasPostId raises on an instance whose load() has failed on a file that
\* violates the schema
C25_Witness ==
    /\ lastOp.fileBefore.kind = "invalid"
    /\ lastOp.op = "hasPostId"
    /\ lastOp.threw
    /\ libCalls > 1

\* C26: when the file write of an addPostId or addPostIds fails, the call
\* returns a failure and the identifier list and the processed counter in
\* memory are what they were when the call began its work.
C26_FailedWriteChangesNothing ==
    (/\ lastOp.op \in {"addPostId", "addPostIds"}
     /\ lastOp.code = "STORAGE_SAVE_ERROR") =>
        /\ ~lastOp.ok
        /\ lastOp.after.postedIds = lastOp.loaded.postedIds
        /\ lastOp.after.totalProcessed = lastOp.loaded.totalProcessed

----------------------------------------------------------------------------
(* Properties of addPostId calls in flight at the same time                 *)

AllReturned == \A k \in Callers : call[k].pc = "returned"

\* C27: when addPostId calls with distinct ids overlap on a loaded ledger and
\* no write is rejected, every call returns success, every id is in the
\* in-memory list, and once all calls have returned the file holds every id.
C27_NoInsertionLost ==
    (AllReturned /\ ~ioFailed) =>
        /\ \A k \in Callers : call[k].ok /\ Includes(mem.postedIds, IdOf(k))
        /\ disk.kind = "valid"
        /\ \A k \in Callers : Includes(disk.data.postedIds, IdOf(k))

----------------------------------------------------------------------------
(* Properties of start() and stop()                                         *)

\* what a start() or stop() call that does nothing leaves alone
LifecycleUntouched ==
    UNCHANGED <<storageVars, isRunning, isShuttingDown, cronJob, totalSyncs,
                totalErrors, lastSync, lastError, startPc, redditTest, stopPc,
                cyc, writeFailures, delivered, healthVars>>

\* C28: a start() that returns after being called on a running bot returns
\* success, has tested no connection and run no sync cycle, and leaves the
\* schedule, the ledger and every counter as they were.
C28_StartWhileRunningIsNoOp ==
    [][(life'.op = "start" /\ isRunning) =>
          /\ life'.ok
          /\ ~life'.synced
          /\ LifecycleUntouched]_vars

\* start() has just returned early on a bot whose schedule is armed
C28_Witness ==
    /\ life.op = "start"
    /\ life.early
    /\ isRunning
    /\ cronJob

\* C29: start() fails exactly when the ledger load or the sink test fails,
\* and has then run no sync cycle, armed no schedule and left the bot not
\* running; otherwise, whatever the source test gave, it has run the initial
\* cycle, armed the schedule and marked the bot running.
C29_StartFailsOnLoadOrSinkOnly ==
    (life.op = "start" /\ ~life.early) =>
        /\ ~life.ok <=> (~life.loadOk \/ ~life.sinkOk)
        /\ ~life.ok => (~life.synced /\ ~cronJob /\ ~isRunning)
        /\ life.ok => (life.synced /\ cronJob /\ isRunning)

----------------------------------------------------------------------------
(* Properties of getHealthStatus *)

\* a getHealthStatus call has returned a status
Reported == health.status \in {"healthy", "degraded", "unhealthy"}

\* C31: getHealthStatus reports "healthy" exactly when no error has been
\* recorded; with errors recorded it reports "degraded" if a sync succeeded
\* within the last hour and "unhealthy" otherwise, also when no sync has ever
\* succeeded.
C31_HealthFromErrorsAndLastSync ==
    Reported =>
        /\ health.status = "healthy" <=> health.totalErrors = 0
        /\ health.totalErrors > 0 =>
              health.status =
                  IF health.lastSync # 0 /\ health.at - health.lastSync <= HealthWindow
                  THEN "degraded" ELSE "unhealthy"

\* the part of C31 that does not depend on a sync ever having succeeded
C31_WithASync ==
    (Reported /\ health.lastSync # 0) =>
        /\ health.status = "healthy" <=> health.totalErrors = 0
        /\ health.totalErrors > 0 =>
              health.status =
                  IF health.at - health.lastSync <= HealthWindow
                  THEN "degraded" ELSE "unhealthy"

----------------------------------------------------------------------------
(* Properties of performSync as the schedule's callback *)

\* C32: performSync never throws: every invocation, whatever failed inside it,
\* ends as a returned success or failure result; a failure result is counted
\* in totalErrors with lastError set; returning leaves the schedule and the
\* running flag as they were, and after a failed cycle the next tick of an
\* armed schedule starts a new cycle.
C32_CycleFailureIsAResult ==
    /\ [][returned'.pc = "done" =>
             /\ returned'.result \in {"success", "failure"}
             /\ returned'.result = "failure" =>
                   (totalErrors' = totalErrors + 1 /\ lastError' # "none")
             /\ returned'.result = "success" => totalErrors' = totalErrors
             /\ cronJob' = cronJob
             /\ isRunning' = isRunning]_vars
    /\ []((Returned /\ returned.result = "failure" /\ cronJob
              /\ ~isShuttingDown /\ calls < MaxCalls) => ENABLED Tick)

\* a scheduled cycle has just failed hard while the schedule is armed and a
\* further tick is possible
C32_Witness ==
    /\ Returned
    /\ returned.result = "failure"
    /\ returned.origin = "tick"
    /\ totalErrors > 0
    /\ cronJob
    /\ ~isShuttingDown
    /\ calls < MaxCalls

\* performSync was called in this step (start() and stop() report through life)
SyncCalled == calls' = calls + 1 /\ life'.op = "none"

\* the statistics of a cycle that did nothing
ZeroStats(cy) ==
    /\ cy.postsFound = 0 /\ cy.postsSent = 0
    /\ cy.postsFailed = 0 /\ cy.postsFiltered = 0
    /\ cy.fetched = <<>> /\ cy.handed = <<>>

\* C33: while the shutdown flag is set no new cycle starts: the cron callback
\* does not run performSync, and a performSync call returns success with
\* all-zero statistics at once, leaving the ledger, the counters and the
\* deliveries as they were.
C33_NoCycleStartsDuringShutdown ==
    /\ [][isShuttingDown =>
             /\ \A c \in Cycles : cyc'[c].pc # "idle" => cyc[c].pc # "idle"
             /\ SyncCalled =>
                   /\ returned'.pc = "done"
                   /\ returned'.result = "success"
                   /\ ZeroStats(returned')
                   /\ UNCHANGED <<storageVars, totalSyncs, totalErrors,
                                  lastSync, lastError, delivered, cyc>>]_vars
    /\ [](isShuttingDown => ~ENABLED Tick)

\* performSync has just returned to a caller that called it while stop() was
\* waiting for its ledger write
C33_Witness ==
    /\ isShuttingDown
    /\ stopPc = "saving"
    /\ Returned
    /\ returned.origin = "manual"
    /\ returned.result = "success"
    /\ ZeroStats(returned)

----------------------------------------------------------------------------
(* Properties of the rate limit *)

\* the distance of two times
Apart(a, b) == IF a < b THEN b - a ELSE a - b

\* C34: any two webhook requests that one DiscordService starts for two
\* different deliveries start at least 1000 ms apart, whether the
\* sendRedditPost calls follow one another or overlap.
C34_RequestsSpaced ==
    \A i, j \in 1..Len(starts) :
        starts[i].call # starts[j].call =>
            Apart(starts[i].at, starts[j].at) >= rateLimitDelay

\* the calls made through the loop of sendRedditPosts, which follow one another
InBatch(i) == sender[starts[i].call].via = "batch"

\* the part of C34 that holds: two requests of calls that followed one
\* another through sendRedditPosts, when the earlier call used no retry
C34_InSequenceWithoutRetry ==
    \A i, j \in 1..Len(starts) :
        (/\ InBatch(i) /\ InBatch(j)
         /\ starts[i].call < starts[j].call
         /\ \A n \in 1..Len(starts) :
               starts[n].call = starts[i].call => starts[n].attempt = 1)
        => starts[j].at - starts[i].at >= rateLimitDelay

\* C34 for the calls of one sendRedditPosts loop only
C34_ThroughSendRedditPosts ==
    \A i, j \in 1..Len(starts) :
        (InBatch(i) /\ InBatch(j) /\ starts[i].call # starts[j].call) =>
            Apart(starts[i].at, starts[j].at) >= rateLimitDelay

\* C34 for the first requests of the calls only
C34_FirstRequests ==
    \A i, j \in 1..Len(starts) :
        (/\ starts[i].call # starts[j].call
         /\ starts[i].attempt = 1 /\ starts[j].attempt = 1)
        => Apart(starts[i].at, starts[j].at) >= rateLimitDelay

----------------------------------------------------------------------------
(* Properties of the sync bookkeeping *)

\* C35: every cycle that completes after a successful fetch has stamped the
\* ledger's lastCheck and counts as a successful sync (totalSyncs + 1, lastSync
\* set anew), also when nothing was fetched and when every fetched item was
\* filtered as already posted.
C35_CompletedCycleStampsAndCounts ==
    [][(returned'.pc = "done" /\ returned'.fetchOk /\ returned'.result = "success") =>
          /\ data'.lastCheck = Stamped
          /\ totalSyncs' = totalSyncs + 1
          /\ lastSync' > lastSync]_vars

\* a cycle whose fetch gave only items that were already in the ledger has
\* completed
C35_Witness ==
    /\ Returned
    /\ returned.result = "success"
    /\ returned.fetchOk
    /\ returned.postsFound > 0
    /\ returned.postsFiltered = returned.postsFound
    /\ returned.handed = <<>>
    /\ data.lastCheck = Stamped
    /\ totalSyncs > 0

----------------------------------------------------------------------------
(* Properties of the backoff *)

\* C36: the backoff wait before attempt n+1 (n = 1, 2) lasts at least
\* 1000 * 2^(n-1) ms and at most 1000 * 2^(n-1) + 1000 ms and never more than
\* 30000 ms; a wait happens only between two attempts: the w-th wait follows
\* the w-th failed attempt and is followed by attempt w+1, none follows the
\* third attempt and none follows a 4xx that ends the delivery.
C36_BackoffBounds ==
    /\ \A w \in 1..Len(waits) :
          LET n == waits[w].after
              d == waits[w].delay
          IN /\ n = w
             /\ n \in {1, 2}
             /\ d >= 1000 * Pow2(n - 1)
             /\ d <= 1000 * Pow2(n - 1) + 1000
             /\ d <= 30000
             /\ Len(posts) >= n
             /\ ~Is2xx(posts[n])
             /\ ~(posts[n].kind = "axios" /\ Is4xx(posts[n]))
    /\ spc = "done" => Len(waits) = Len(posts) - 1
    /\ spc = "waiting" => Len(waits) = Len(posts)
    /\ spc = "posting" => Len(waits) = attempt - 1

\* a delivery of three attempts has ended: two waits, the first with the
\* largest jitter, the second with none
C36_Witness ==
    /\ spc = "done"
    /\ Len(posts) = 3
    /\ Len(waits) = 2
    /\ waits[1].delay = 1999
    /\ waits[2].delay = 2000

----------------------------------------------------------------------------
(* Properties of overlapping start() and stop() calls *)

\* C37: at any time at most one recurring schedule is armed for a bot, for
\* every interleaving of start() and stop() calls.
C37_AtMostOneSchedule == armed <= 1

----------------------------------------------------------------------------
(* Properties of stop() with a cycle in progress *)

\* stop() has just returned from stopping a running bot
JustStopped == life.op = "stop" /\ life.ok /\ ~life.early

\* the step is not a new call of start(), stop() or performSync
NoNewCall == calls' = calls

\* C38: once stop() has returned, the bot hands nothing to the sink and
\* writes nothing to the ledger until start() is called again, even if a
\* cycle was in progress when stop() was called.
C38_QuietAfterStop ==
    [][(JustStopped /\ NoNewCall) =>
          /\ \A c \in Cycles : Len(cyc'[c].handed) <= Len(cyc[c].handed)
          /\ delivered' = delivered
          /\ data' = data
          /\ file' = file]_vars

\* C38 for a bot in which no cycle was in progress when stop() returned
C38_QuietAfterStopWhenIdle ==
    [][(JustStopped /\ NoNewCall /\ \A c \in Cycles : ~Active(c)) =>
          /\ \A c \in Cycles : Len(cyc'[c].handed) <= Len(cyc[c].handed)
          /\ delivered' = delivered
          /\ data' = data
          /\ file' = file]_vars

----------------------------------------------------------------------------
(* Properties of several RedditStorage instances *)

\* the step is a call on instance i that adds identifiers or clears
Changes(i) ==
    /\ libCalls' = libCalls + 1
    /\ lastOp'.inst = i
    /\ lastOp'.op \in {"addPostId", "addPostIds", "clear"}

\* C39: instances backed by different files are independent: adding
\* identifiers to one instance, or clearing it, changes neither the identifier
\* list nor the processed counter another instance holds, nor the other
\* instance's file; an instance created later starts with an empty list and a
\* zero counter.
C39_InstancesIndependent ==
    [][/\ \A i \in Instances : Changes(i) =>
             \A j \in Instances \ {i} :
                 /\ inst[j].made =>
                       /\ DataOf(j)'.postedIds = DataOf(j).postedIds
                       /\ DataOf(j)'.totalProcessed = DataOf(j).totalProcessed
                 /\ files'[j] = files[j]
       /\ \A j \in Instances : (~inst[j].made /\ inst'[j].made) =>
             /\ DataOf(j)'.postedIds = <<>>
             /\ DataOf(j)'.totalProcessed = 0]_vars

\* C39 for instances that have each loaded a valid file of their own
C39_IndependentOnceLoadedFromFile ==
    [][\A i \in Instances : Changes(i) =>
          \A j \in Instances \ {i} :
              (inst[j].made /\ inst[j].idsRef # DefaultRef /\ inst[j].metaRef # DefaultRef) =>
                  /\ DataOf(j)'.postedIds = DataOf(j).postedIds
                  /\ DataOf(j)'.totalProcessed = DataOf(j).totalProcessed
                  /\ files'[j] = files[j]]_vars

----------------------------------------------------------------------------
(* Properties of redelivery *)

\* the ledger the filter of the next cycle reads
Recorded(i) == Includes(data.postedIds, i)

\* C40: an item whose delivery fails stays out of the ledger (its id enters
\* the ledger only after a delivery of it has succeeded) and is handed to the
\* sink again by the next cycle whose fetch returns it; with the schedule
\* firing fairly, an item that every successful fetch returns and that the
\* sink does not refuse for ever is eventually delivered and recorded.
C40_FailedItemIsRetriedUntilRecorded ==
    /\ [](Recorded(Item) => delivered[Item] > 0)
    /\ [][\A c \in Cycles :
             (/\ cyc[c].pc = "fetching"
              /\ cyc'[c].pc = "sending"
              /\ ~Recorded(Item))
             => Includes(cyc'[c].newPosts, Item)]_vars
    /\ [][\A c \in Cycles :
             (cyc[c].pc = "sending" /\ cyc'[c].postsFailed > cyc[c].postsFailed)
             => (cyc'[c].postIds = cyc[c].postIds /\ data' = data)]_vars
    /\ <>(delivered[Item] > 0 /\ Recorded(Item))

\* the item has been recorded by a cycle that follows one in which its
\* delivery failed
C40_Witness ==
    /\ Recorded(Item)
    /\ delivered[Item] = 1
    /\ \E c \in Cycles :
          /\ cyc[c].pc = "stamping"
          /\ Includes(cyc[c].postIds, Item)
          /\ cyc[c].postsFailed = 0
    /\ \E c \in Cycles :
          /\ cyc[c].pc = "stamping"
          /\ Includes(cyc[c].handed, Item)
          /\ ~Includes(cyc[c].postIds, Item)

====
